---- MODULE Spec2Model ----
(***************************************************************************)
(* A model of the WebSocket probe of src/websocket_probe.py:               *)
(*   - WebSocketProbe (the connection session): connect, send_message,     *)
(*     ping_test, http_probe, close, and its stats dictionary, also        *)
(*     against a clock;                                                    *)
(*   - WebSocketProbeRunner: stress_test (the semaphore-gated fan-out of   *)
(*     single_test coroutines, asyncio.gather and the merge loop),         *)
(*     basic_probe, continuous_probe, interactive_mode with its receive    *)
(*     task, and signal_handler;                                           *)
(*   - main: the command line, its validation and the start of a driver;   *)
(*   - basic_probe and send_message of the Python 3.6 copy,                *)
(*     src/python_backup/websocket_probe_py36.py.                          *)
(*                                                                         *)
(* The websockets library is the environment: each awaited library call    *)
(* ends in one of the outcomes the library can produce (a value or an      *)
(* exception), chosen nondeterministically.  Latencies are whole           *)
(* milliseconds in 0..MaxLatency.                                          *)
(***************************************************************************)
EXTENDS Integers, Sequences, FiniteSets, TLC

\* ------------------------------------------------------------------ bounds
\* Largest response time (ms) the environment produces.
MaxLatency == 2
\* Number of session operations one session-level run performs.
MaxCalls == 4
\* stress_test(count=...): number of single_test trials.
Count == 3
\* stress_test(concurrency=...): initial value of the semaphore.
Concurrency == 2
\* Largest count and largest concurrency of the stress runs that start
\* from any count and any concurrency.
MaxCount == 2
MaxConcurrency == 2
\* Probe cycles continuous_probe starts before the stop signal is due.
MaxCycles == 2
\* Largest continuous_probe(interval=...), in ticks of the clock.
MaxInterval == 2
\* Operator inputs the interactive prompt reads before the operator must
\* end the session.
MaxInputs == 2
\* Inbound messages the peer sends during an interactive session.
MaxInbound == 2
\* WebSocketProbe(timeout=...), in ticks of the clock.
TimeoutTicks == 2
\* Longest time, in ticks, the peer leaves one awaited call unanswered.
MaxStall == 4

VARIABLES
    \* ---- one WebSocketProbe driven through its public operations
    probe,      \* the session: [connection, stats]
    before,     \* the session as it was when the last operation was called
    last,       \* the last operation: [op, ret, net]
    prev,       \* the operation before it: [op, ret, net]
    ncalls,     \* operations called so far
    measured,   \* the time (ms) the last send_message took to get its reply
    unanswered, \* the send_message calls so far whose frame went out and
                \* whose reply did not come
    report,     \* when the last operation was a connect: what its handshake
                \* met and what connect logged about it
    inflight,   \* the operation now suspended in an await, and for how long
    \* ---- WebSocketProbeRunner.stress_test
    concurrency, \* the concurrency stress_test was called with
    semaphore,  \* value of asyncio.Semaphore(concurrency)
    pc,         \* pc[t]: where single_test number t is suspended
    probes,     \* probes[t]: the WebSocketProbe local to trial t
    results,    \* results[t]: what gather collects for trial t
    driver,     \* where stress_test itself is
    idx,        \* position of the merge loop in results
    total_stats, \* the aggregate the merge loop builds
    \* ---- the sequential mode drivers (basic, continuous, interactive)
    mode,       \* which driver runs: "none", "basic", "continuous",
                \* "interactive", or "basic_py36" (basic_probe of the copy)
    dpc,        \* where the driver is
    dprobe,     \* the driver's WebSocketProbe
    debug,      \* the debug flag given to the driver
    events,     \* what the driver has done so far, in order
    http_result,\* what http_probe gave back, once it has run
    running,    \* WebSocketProbeRunner.running
    interval,   \* continuous_probe(interval=...)
    sleep_left, \* what is left of the current asyncio.sleep(interval)
    stopAt,     \* where the driver was when the stop signal arrived
    rx,         \* the state of the interactive receive task
    ninputs,    \* operator inputs read so far by the interactive prompt
    prompt,     \* the line the interactive prompt read last, and what became of it
    wire,       \* the payloads the interactive prompt has put on the connection
    \* ---- main
    args,       \* the parsed command line
    mpc,        \* where main is
    exit_code,  \* what main returned: {} until it has, then {0} or {1}
    stdout,     \* what main has printed, in order
    cfg         \* the arguments the driver built its WebSocketProbe with

sessionVars == <<probe, before, last, prev, ncalls, measured, unanswered,
                 report, inflight>>
stressVars == <<concurrency, semaphore, pc, probes, results, driver, idx, total_stats>>
modeVars == <<mode, dpc, dprobe, debug, events, http_result, running,
              interval, sleep_left, stopAt, rx, ninputs, prompt, wire>>
mainVars == <<args, mpc, exit_code, stdout, cfg>>
vars == <<probe, before, last, prev, ncalls, measured, unanswered, report,
          inflight,
          concurrency, semaphore, pc, probes, results, driver, idx,
          total_stats,
          mode, dpc, dprobe, debug, events, http_result, running,
          interval, sleep_left, stopAt, rx, ninputs, prompt, wire,
          args, mpc, exit_code, stdout, cfg>>

\* ------------------------------------------------------------------ Stats
\* float('inf'): greater than every latency the environment produces.
Inf == MaxLatency + 1

Latencies == 0..MaxLatency

min(a, b) == IF b < a THEN b ELSE a
max(a, b) == IF b > a THEN b ELSE a

\* WebSocketProbe.__init__: self.stats
InitStats ==
    [connection_attempts |-> 0,
     successful_connections |-> 0,
     failed_connections |-> 0,
     messages_sent |-> 0,
     messages_received |-> 0,
     total_response_time |-> 0,
     min_response_time |-> Inf,
     max_response_time |-> 0]

\* WebSocketProbe.__init__: self.connection = None and fresh stats.
\* connection is "None", or a handle whose library-side state is
\* "OPEN" or "CLOSED" (a handle is truthy in either state).
NewProbe == [connection |-> "None", stats |-> InitStats]

\* ---------------------------------------------------------------- connect
\* What one awaited websockets.connect(...) under wait_for can end in.
ConnectOutcomes ==
    {"ok", "timeout", "invalid_status", "invalid_handshake", "other",
     "TypeError_additional_headers", "TypeError_extra_headers",
     "TypeError_other"}

\* The nested try blocks of connect: the second attempt runs only after a
\* TypeError naming additional_headers, the third only after a TypeError
\* naming extra_headers; any other exception is re-raised as it is.
FinalOutcome(o1, o2, o3) ==
    IF o1 = "TypeError_additional_headers"
    THEN IF o2 = "TypeError_extra_headers" THEN o3 ELSE o2
    ELSE o1

\* The except clauses of connect, in order.
ConnectClassify(o) ==
    CASE o = "ok" -> "Connected"
      [] o = "timeout" -> "Timeout"
      [] o = "invalid_status" -> "InvalidStatus"
      [] o = "invalid_handshake" -> "InvalidHandshake"
      [] OTHER -> "Other"

\* connect up to its first await: the attempt is counted.
ConnectBegin(p) ==
    [p EXCEPT !.stats.connection_attempts = @ + 1]

ConnectEnd_TimeoutUncounted(p, o) ==
    IF ConnectClassify(o) = "Connected"
    THEN [connection |-> "OPEN",
          stats |-> [p.stats EXCEPT !.successful_connections = @ + 1]]
    ELSE IF ConnectClassify(o) = "Timeout"
    THEN p
    ELSE [p EXCEPT !.stats.failed_connections = @ + 1]

\* connect from the point its handshake has ended with outcome o: the
\* handle is assigned only on success; every except clause counts a failure.
ConnectEnd(p, o) ==
    IF ConnectClassify(o) = "Connected"
    THEN [connection |-> "OPEN",
          stats |-> [p.stats EXCEPT !.successful_connections = @ + 1]]
    ELSE [p EXCEPT !.stats.failed_connections = @ + 1]

\* WebSocketProbe.connect as one call: [probe, ret, net].
Connect(p, o1, o2, o3) ==
    LET o == FinalOutcome(o1, o2, o3)
        q == ConnectEnd(ConnectBegin(p), o)
        tries == IF o1 = "TypeError_additional_headers"
                 THEN IF o2 = "TypeError_extra_headers" THEN 3 ELSE 2
                 ELSE 1
    IN [probe |-> q, ret |-> ConnectClassify(o), net |-> tries]

\* The statuses a peer may answer the opening handshake with instead of
\* 101 Switching Protocols.
RejectStatuses == {200, 401, 403, 404, 500}

\* The exception the library raises for a rejected handshake: older
\* releases carry e.status_code, newer ones e.response.status_code.  An
\* attribute that is absent (None) is 0 here.
StatusExceptions(s) ==
    {[status_code |-> s, response |-> 0], [status_code |-> 0, response |-> s]}

\* 'Unknown', the status logged when the exception carries none.
Unknown == 0 - 1

\* status_code = getattr(e, 'status_code', None) or getattr(e, 'response',
\* None), unwrapped when it is a response object, or 'Unknown'.
StatusOf(e) ==
    LET found == IF e.status_code # 0 THEN e.status_code ELSE e.response
    IN IF found # 0 THEN found ELSE Unknown

Hint_403As401(status) ==
    CASE status = 200 -> "plain_http_service"
      [] status = 404 -> "path_likely_wrong"
      [] status = 403 -> "needs_authentication"
      [] status = 401 -> "needs_authentication"
      [] OTHER -> "none"

\* The if / elif chain under the status line: the canned hint.
Hint(status) ==
    CASE status = 200 -> "plain_http_service"
      [] status = 404 -> "path_likely_wrong"
      [] status = 403 -> "access_denied"
      [] status = 401 -> "needs_authentication"
      [] OTHER -> "none"

NoReport == [deadline |-> FALSE, answered |-> 0, status |-> 0, hint |-> "none"]

\* What connect logs at error level once its handshake has ended with
\* outcome o, the peer having answered status s through exception e: only
\* the InvalidStatus clause logs a status and a hint.  deadline tells
\* whether wait_for gave the handshake up.
ConnectReport(o, s, e) ==
    IF ConnectClassify(o) = "InvalidStatus"
    THEN [deadline |-> FALSE, answered |-> s, status |-> StatusOf(e),
          hint |-> Hint(StatusOf(e))]
    ELSE [NoReport EXCEPT !.deadline = (o = "timeout")]

\* ----------------------------------------------------------- send_message
\* What connection.send followed by wait_for(connection.recv) can end in.
SendOutcomes ==
    {"reply", "recv_timeout", "recv_closed", "recv_error",
     "send_closed", "send_error"}

\* A handle the library has closed raises ConnectionClosed on send.
EffectiveSend(conn, out) == IF conn = "CLOSED" THEN "send_closed" ELSE out

\* The try block of send_message: connection.send, the sent counter, the
\* wait for one reply, the latency fold; then the except clauses.
Transmit(p, out, lat) ==
    LET e == EffectiveSend(p.connection, out)
        sent == [p.stats EXCEPT !.messages_sent = @ + 1]
    IN CASE e = "reply" ->
              [probe |-> [p EXCEPT !.stats =
                  [sent EXCEPT
                     !.messages_received = @ + 1,
                     !.total_response_time = @ + lat,
                     !.min_response_time = min(@, lat),
                     !.max_response_time = max(@, lat)]],
               ret |-> "Latency", net |-> 2]
         [] e = "recv_timeout" ->
              [probe |-> [p EXCEPT !.stats = sent],
               ret |-> "Timeout", net |-> 2]
         [] e = "recv_closed" ->
              [probe |-> [connection |-> "CLOSED", stats |-> sent],
               ret |-> "ConnectionClosed", net |-> 2]
         [] e = "recv_error" ->
              [probe |-> [p EXCEPT !.stats = sent],
               ret |-> "Other", net |-> 2]
         [] e = "send_closed" ->
              [probe |-> [p EXCEPT !.connection = "CLOSED"],
               ret |-> "ConnectionClosed", net |-> 1]
         [] OTHER ->
              [probe |-> p, ret |-> "Other", net |-> 1]

SendMessage_NoGuard(p, out, lat) == Transmit(p, out, lat)

SendMessage_MinNotFolded(p, out, lat) ==
    IF p.connection = "None"
    THEN [probe |-> p, ret |-> "NotConnected", net |-> 0]
    ELSE LET r == Transmit(p, out, lat)
         IN [r EXCEPT !.probe.stats.min_response_time =
                          p.stats.min_response_time]

SendMessage_TimeoutCounted(p, out, lat) ==
    IF p.connection = "None"
    THEN [probe |-> p, ret |-> "NotConnected", net |-> 0]
    ELSE LET r == Transmit(p, out, lat)
         IN IF r.ret = "Timeout"
            THEN [r EXCEPT !.probe.stats.messages_received = @ + 1]
            ELSE r

SendMessage_CountedBeforeSend(p, out, lat) ==
    IF p.connection = "None"
    THEN [probe |-> p, ret |-> "NotConnected", net |-> 0]
    ELSE LET r == Transmit(p, out, lat)
         IN IF r.net = 1
            THEN [r EXCEPT !.probe.stats.messages_sent = @ + 1]
            ELSE r

\* WebSocketProbe.send_message: [probe, ret, net]; ret names the path
\* taken ("Latency" returns response_time, every other path returns None),
\* net counts the calls made on the connection.
SendMessage(p, out, lat) ==
    IF p.connection = "None"
    THEN [probe |-> p, ret |-> "NotConnected", net |-> 0]
    ELSE Transmit(p, out, lat)

\* -------------------------------------------------------------- ping_test
PingOutcomes == {"pong", "timeout", "error"}

PingTest_CountedAsMessage(p, out) ==
    IF p.connection = "None"
    THEN [probe |-> p, ret |-> "NotConnected", net |-> 0]
    ELSE IF p.connection = "CLOSED" \/ out = "error"
    THEN [probe |-> p, ret |-> "Other", net |-> 1]
    ELSE IF out = "timeout"
    THEN [probe |-> [p EXCEPT !.stats.messages_sent = @ + 1],
          ret |-> "Timeout", net |-> 1]
    ELSE [probe |-> [p EXCEPT !.stats.messages_sent = @ + 1,
                              !.stats.messages_received = @ + 1],
          ret |-> "ok", net |-> 1]

\* WebSocketProbe.ping_test: no stats field is written on any path.
PingTest(p, out) ==
    IF p.connection = "None"
    THEN [probe |-> p, ret |-> "NotConnected", net |-> 0]
    ELSE IF p.connection = "CLOSED" \/ out = "error"
    THEN [probe |-> p, ret |-> "Other", net |-> 1]
    ELSE IF out = "timeout"
    THEN [probe |-> p, ret |-> "Timeout", net |-> 1]
    ELSE [probe |-> p, ret |-> "ok", net |-> 1]

\* ------------------------------------------------------------------ close
\* What awaiting connection.close() on an open handle can end in; on a
\* handle that is already closed the library returns at once.
CloseOutcomes == {"ok", "raise"}

Close_LeavesOpen(p, out) == [probe |-> p, ret |-> "ok", net |-> 0]

\* WebSocketProbe.close: no try block, and self.connection is not reset.
Close(p, out) ==
    IF p.connection = "None"
    THEN [probe |-> p, ret |-> "ok", net |-> 0]
    ELSE IF p.connection = "CLOSED"
    THEN [probe |-> p, ret |-> "ok", net |-> 1]
    ELSE [probe |-> [p EXCEPT !.connection = "CLOSED"],
          ret |-> out, net |-> 1]

\* ===================================================== the session's runs
NoCall == [op |-> "none", ret |-> "none", net |-> 0]

\* No operation is suspended.
Idle == [op |-> "none", await |-> "none", waited |-> 0]

\* No http_probe has run / no stop signal has arrived.
NoHttp == [outcome |-> "none", ret |-> "none", shape |-> "none",
           status_code |-> {}, content |-> {}]
NoStop == [cycle |-> 0, pc |-> "none", left |-> 0]

\* The interactive prompt has read no line.
NoLine == [line |-> "", handled |-> "none", seen |-> InitStats]

\* No command line, no WebSocketProbe built by a driver.
NoArgs == [mode |-> "none", scheme |-> "none", headers |-> "none", timeout |-> 0,
           skip_ssl_verify |-> FALSE, debug |-> FALSE, interval |-> 0]
NoCfg == [made |-> FALSE, timeout |-> 0, skip_ssl_verify |-> FALSE]

\* main is not part of the run.
InitNoMain ==
    /\ args = NoArgs
    /\ mpc = "none"
    /\ exit_code = {}
    /\ stdout = <<>>
    /\ cfg = NoCfg

\* The mode drivers before any of them is started.
InitNoMode ==
    /\ mode = "none"
    /\ dpc = "idle"
    /\ dprobe = NewProbe
    /\ debug = FALSE
    /\ events = <<>>
    /\ http_result = NoHttp
    /\ running = TRUE
    /\ interval = 0
    /\ sleep_left = 0
    /\ stopAt = NoStop
    /\ rx = "none"
    /\ ninputs = 0
    /\ prompt = NoLine
    /\ wire = <<>>

\* stress_test(count=n, concurrency=c) up to the call of gather: the
\* semaphore is made with c permits and n single_test tasks are created.
InitStressWith(n, c) ==
    /\ concurrency = c
    /\ semaphore = c
    /\ pc = [t \in 1..n |-> "start"]
    /\ probes = [t \in 1..n |-> NewProbe]
    /\ results = [t \in 1..n |-> [kind |-> "pending", stats |-> InitStats]]
    /\ driver = "gather"
    /\ idx = 1
    /\ total_stats = InitStats

InitStress == InitStressWith(Count, Concurrency)

InitSession ==
    /\ probe = NewProbe
    /\ before = NewProbe
    /\ last = NoCall
    /\ prev = NoCall
    /\ ncalls = 0
    /\ measured = 0
    /\ unanswered = 0
    /\ report = NoReport
    /\ inflight = Idle
    /\ InitStress
    /\ InitNoMode
    /\ InitNoMain

\* 1 for a send_message whose connection.send returned (the frame went
\* out and recv was awaited) and that did not end with a reply; 0 for
\* every other call.
Unanswered(op, r) ==
    IF op = "send" /\ r.net = 2 /\ r.ret # "Latency" THEN 1 ELSE 0

Called(op, r) ==
    /\ ncalls < MaxCalls
    /\ ncalls' = ncalls + 1
    /\ before' = probe
    /\ prev' = last
    /\ last' = [op |-> op, ret |-> r.ret, net |-> r.net]
    /\ probe' = r.probe
    /\ unanswered' = unanswered + Unanswered(op, r)
    /\ UNCHANGED inflight
    /\ UNCHANGED <<stressVars, modeVars, mainVars>>

\* The outcomes of the attempts one connect call makes: a later attempt has
\* an outcome only when the nested try blocks reach it.
SecondOutcomes(o1) ==
    IF o1 = "TypeError_additional_headers" THEN ConnectOutcomes ELSE {"unused"}
ThirdOutcomes(o1, o2) ==
    IF o1 = "TypeError_additional_headers" /\ o2 = "TypeError_extra_headers"
    THEN ConnectOutcomes ELSE {"unused"}

CallConnect ==
    \E o1 \in ConnectOutcomes :
        \E o2 \in SecondOutcomes(o1) :
            \E o3 \in ThirdOutcomes(o1, o2) :
                /\ Called("connect", Connect(probe, o1, o2, o3))
                /\ \E s \in (IF FinalOutcome(o1, o2, o3) = "invalid_status"
                              THEN RejectStatuses ELSE {0}) :
                     \E e \in StatusExceptions(s) :
                        report' = ConnectReport(FinalOutcome(o1, o2, o3), s, e)
                /\ UNCHANGED measured

CallSend ==
    \E out \in SendOutcomes, lat \in Latencies :
        /\ Called("send", SendMessage(probe, out, lat))
        /\ measured' = lat
        /\ report' = NoReport

CallPing ==
    \E out \in PingOutcomes :
        /\ Called("ping", PingTest(probe, out))
        /\ report' = NoReport
        /\ UNCHANGED measured

CallClose ==
    \E out \in CloseOutcomes :
        /\ Called("close", Close(probe, out))
        /\ report' = NoReport
        /\ UNCHANGED measured

\* The peer (or the network) ends an open connection on its own.
PeerCloses ==
    /\ probe.connection = "OPEN"
    /\ probe' = [probe EXCEPT !.connection = "CLOSED"]
    /\ UNCHANGED <<before, last, prev, ncalls, measured, unanswered, report,
                   inflight>>
    /\ UNCHANGED <<stressVars, modeVars, mainVars>>

NextSession ==
    \/ CallConnect
    \/ CallSend
    \/ CallPing
    \/ CallClose
    \/ PeerCloses

SpecSession == InitSession /\ [][NextSession]_vars

\* ------------------------------------------- the session against the clock
\* The awaited calls of the session's operations, in the order each
\* operation makes them.
FirstAwait(op) ==
    CASE op = "connect" -> "handshake"
      [] op = "send" -> "transmit"
      [] op = "ping" -> "ping_frame"

\* No deadline: the await lasts as long as the awaited call does.
NoDeadline == MaxStall + 1

\* asyncio.wait_for(..., timeout=self.timeout) wraps websockets.connect,
\* connection.recv and the pong waiter; connection.send and
\* connection.ping are awaited bare.
Deadline(await) ==
    IF await \in {"handshake", "reply", "pong"} THEN TimeoutTicks ELSE NoDeadline

\* An operation is called and runs up to its first await.  send_message
\* and ping_test return at once on a session that has no handle.
TimedCall(op) ==
    /\ inflight = Idle
    /\ ncalls < MaxCalls
    /\ ncalls' = ncalls + 1
    /\ before' = probe
    /\ prev' = last
    /\ IF op # "connect" /\ probe.connection = "None"
       THEN /\ last' = [op |-> op, ret |-> "NotConnected", net |-> 0]
            /\ UNCHANGED <<probe, inflight>>
       ELSE /\ last' = [op |-> op, ret |-> "pending", net |-> 0]
            /\ probe' = IF op = "connect" THEN ConnectBegin(probe) ELSE probe
            /\ inflight' = [op |-> op, await |-> FirstAwait(op), waited |-> 0]
    /\ UNCHANGED <<measured, unanswered, report>>
    /\ UNCHANGED <<stressVars, modeVars, mainVars>>

TimedCalls == \E op \in {"connect", "send", "ping"} : TimedCall(op)

\* One tick passes while the awaited call is still unanswered.
TimedTick ==
    /\ inflight # Idle
    /\ inflight.waited < MaxStall
    /\ inflight.waited < Deadline(inflight.await)
    /\ inflight' = [inflight EXCEPT !.waited = @ + 1]
    /\ UNCHANGED <<probe, before, last, prev, ncalls, measured, unanswered,
                   report>>
    /\ UNCHANGED <<stressVars, modeVars, mainVars>>

\* The operation returns to its caller with the result r.
Returns(r) ==
    /\ probe' = r.probe
    /\ last' = [last EXCEPT !.ret = r.ret, !.net = r.net]
    /\ unanswered' = unanswered + Unanswered(last.op, r)
    /\ inflight' = Idle

\* wait_for gives the awaited call up when the timeout has passed:
\* asyncio.TimeoutError, which each operation turns into its result.
TimedExpire ==
    /\ inflight # Idle
    /\ inflight.waited = Deadline(inflight.await)
    /\ CASE inflight.await = "handshake" ->
              Returns([probe |-> ConnectEnd(probe, "timeout"),
                       ret |-> ConnectClassify("timeout"), net |-> 1])
         [] inflight.await = "reply" ->
              Returns(SendMessage(before, "recv_timeout", 0))
         [] OTHER ->
              Returns(PingTest(probe, "timeout"))
    /\ UNCHANGED <<before, prev, ncalls, measured, report>>
    /\ UNCHANGED <<stressVars, modeVars, mainVars>>

\* The handshake ends, one way or the other, before the deadline.
TimedHandshakeEnds ==
    /\ inflight.await = "handshake"
    /\ \E o \in {"ok", "invalid_status", "invalid_handshake", "other"} :
         Returns([probe |-> ConnectEnd(probe, o),
                  ret |-> ConnectClassify(o), net |-> 1])
    /\ UNCHANGED <<before, prev, ncalls, measured, report>>
    /\ UNCHANGED <<stressVars, modeVars, mainVars>>

\* connection.send returns (the frame is written, messages_sent is
\* counted and the wait for the reply starts) or raises.
TimedTransmitEnds ==
    /\ inflight.await = "transmit"
    /\ \E out \in {"sent", "send_closed", "send_error"} :
         IF out = "sent" /\ probe.connection = "OPEN"
         THEN /\ probe' = [probe EXCEPT !.stats.messages_sent = @ + 1]
              /\ inflight' = [inflight EXCEPT !.await = "reply", !.waited = 0]
              /\ last' = [last EXCEPT !.net = 1]
              /\ UNCHANGED unanswered
         ELSE Returns(SendMessage(before, IF out = "sent" THEN "send_closed"
                                                        ELSE out, 0))
    /\ UNCHANGED <<before, prev, ncalls, measured, report>>
    /\ UNCHANGED <<stressVars, modeVars, mainVars>>

\* connection.recv returns a reply, or raises, before the deadline.
TimedReplyEnds ==
    /\ inflight.await = "reply"
    /\ \E out \in {"reply", "recv_closed", "recv_error"} :
         Returns(SendMessage(before, out, min(inflight.waited, MaxLatency)))
    /\ measured' = min(inflight.waited, MaxLatency)
    /\ UNCHANGED <<before, prev, ncalls, report>>
    /\ UNCHANGED <<stressVars, modeVars, mainVars>>

\* connection.ping returns the pong waiter, or raises.
TimedPingFrameEnds ==
    /\ inflight.await = "ping_frame"
    /\ \E out \in {"written", "error"} :
         IF out = "written" /\ probe.connection = "OPEN"
         THEN /\ inflight' = [inflight EXCEPT !.await = "pong", !.waited = 0]
              /\ UNCHANGED <<probe, last, unanswered>>
         ELSE Returns(PingTest(probe, "error"))
    /\ UNCHANGED <<before, prev, ncalls, measured, report>>
    /\ UNCHANGED <<stressVars, modeVars, mainVars>>

\* The pong arrives, or the waiter fails, before the deadline.
TimedPongEnds ==
    /\ inflight.await = "pong"
    /\ \E out \in {"pong", "error"} : Returns(PingTest(probe, out))
    /\ UNCHANGED <<before, prev, ncalls, measured, report>>
    /\ UNCHANGED <<stressVars, modeVars, mainVars>>

NextDeadline ==
    \/ TimedCalls
    \/ TimedTick
    \/ TimedExpire
    \/ TimedHandshakeEnds
    \/ TimedTransmitEnds
    \/ TimedReplyEnds
    \/ TimedPingFrameEnds
    \/ TimedPongEnds

SpecDeadline == InitSession /\ [][NextDeadline]_vars

\* ============================================================ stress_test
\* tasks = [single_test() for _ in range(count)]
Trials == DOMAIN pc

\* asyncio.Semaphore.acquire returns only while the value is positive.
Acquirable_NoGate(v) == TRUE

Acquirable_AtZero(v) == v >= 0

Acquirable(v) == v > 0

\* gather(*tasks, return_exceptions=True): an exception a task raised is
\* one more item of the result list, and stress_test goes on to the merge.
GatherOutcome_Propagate(rs) ==
    IF \E t \in Trials : rs[t].kind = "exception" THEN "aborted" ELSE "merge"

GatherOutcome(rs) == "merge"

\* gather returns once every task has finished; were it to propagate, it
\* would return at the first exception.
GatherReady(rs) ==
    \/ \A t \in Trials : rs[t].kind # "pending"
    \/ /\ GatherOutcome(rs) = "aborted"
       /\ \E t \in Trials : rs[t].kind = "exception"

MergeResult_MaxOverwritten(total, r) ==
    IF r.kind = "dict"
    THEN [connection_attempts |->
              total.connection_attempts + r.stats.connection_attempts,
          successful_connections |->
              total.successful_connections + r.stats.successful_connections,
          failed_connections |->
              total.failed_connections + r.stats.failed_connections,
          messages_sent |-> total.messages_sent + r.stats.messages_sent,
          messages_received |->
              total.messages_received + r.stats.messages_received,
          total_response_time |->
              total.total_response_time + r.stats.total_response_time,
          min_response_time |->
              IF r.stats.min_response_time # Inf
              THEN min(total.min_response_time, r.stats.min_response_time)
              ELSE total.min_response_time,
          max_response_time |-> r.stats.max_response_time]
    ELSE total

MergeResult_MinOverwritten(total, r) ==
    IF r.kind = "dict"
    THEN [connection_attempts |->
              total.connection_attempts + r.stats.connection_attempts,
          successful_connections |->
              total.successful_connections + r.stats.successful_connections,
          failed_connections |->
              total.failed_connections + r.stats.failed_connections,
          messages_sent |-> total.messages_sent + r.stats.messages_sent,
          messages_received |->
              total.messages_received + r.stats.messages_received,
          total_response_time |->
              total.total_response_time + r.stats.total_response_time,
          min_response_time |->
              IF r.stats.min_response_time # Inf
              THEN r.stats.min_response_time
              ELSE total.min_response_time,
          max_response_time |->
              max(total.max_response_time, r.stats.max_response_time)]
    ELSE total

MergeResult_MaxSummed(total, r) ==
    IF r.kind = "dict"
    THEN [connection_attempts |->
              total.connection_attempts + r.stats.connection_attempts,
          successful_connections |->
              total.successful_connections + r.stats.successful_connections,
          failed_connections |->
              total.failed_connections + r.stats.failed_connections,
          messages_sent |-> total.messages_sent + r.stats.messages_sent,
          messages_received |->
              total.messages_received + r.stats.messages_received,
          total_response_time |->
              total.total_response_time + r.stats.total_response_time,
          min_response_time |->
              IF r.stats.min_response_time # Inf
              THEN min(total.min_response_time, r.stats.min_response_time)
              ELSE total.min_response_time,
          max_response_time |->
              total.max_response_time + r.stats.max_response_time]
    ELSE total

\* One iteration of the merge loop: a result that is no dict (an exception
\* gather collected) is skipped; min is folded unless the result's is inf,
\* max is folded always, every other key is added.
MergeResult(total, r) ==
    IF r.kind = "dict"
    THEN [connection_attempts |->
              total.connection_attempts + r.stats.connection_attempts,
          successful_connections |->
              total.successful_connections + r.stats.successful_connections,
          failed_connections |->
              total.failed_connections + r.stats.failed_connections,
          messages_sent |-> total.messages_sent + r.stats.messages_sent,
          messages_received |->
              total.messages_received + r.stats.messages_received,
          total_response_time |->
              total.total_response_time + r.stats.total_response_time,
          min_response_time |->
              IF r.stats.min_response_time # Inf
              THEN min(total.min_response_time, r.stats.min_response_time)
              ELSE total.min_response_time,
          max_response_time |->
              max(total.max_response_time, r.stats.max_response_time)]
    ELSE total

\* The merge loop of the Python 3.6 copy: the three latency keys are
\* folded only when the result's value is not inf.
MergeResultPy36(total, r) ==
    IF r.kind = "dict"
    THEN [connection_attempts |->
              total.connection_attempts + r.stats.connection_attempts,
          successful_connections |->
              total.successful_connections + r.stats.successful_connections,
          failed_connections |->
              total.failed_connections + r.stats.failed_connections,
          messages_sent |-> total.messages_sent + r.stats.messages_sent,
          messages_received |->
              total.messages_received + r.stats.messages_received,
          total_response_time |->
              IF r.stats.total_response_time # Inf
              THEN total.total_response_time + r.stats.total_response_time
              ELSE total.total_response_time,
          min_response_time |->
              IF r.stats.min_response_time # Inf
              THEN min(total.min_response_time, r.stats.min_response_time)
              ELSE total.min_response_time,
          max_response_time |->
              IF r.stats.max_response_time # Inf
              THEN max(total.max_response_time, r.stats.max_response_time)
              ELSE total.max_response_time]
    ELSE total

\* single_test from its start to its first suspension: it passes the
\* semaphore, builds its own probe and enters connect, which counts the
\* attempt and awaits the handshake.
TrialAcquire(t) ==
    /\ driver = "gather"
    /\ pc[t] = "start"
    /\ Acquirable(semaphore)
    /\ semaphore' = semaphore - 1
    /\ probes' = [probes EXCEPT ![t] = ConnectBegin(NewProbe)]
    /\ pc' = [pc EXCEPT ![t] = "connect"]
    /\ UNCHANGED <<results, driver, idx, total_stats>>
    /\ UNCHANGED <<concurrency, sessionVars, modeVars, mainVars>>

\* The handshake ends.  On success send_message starts and suspends in
\* connection.send; on failure single_test returns probe.stats, close
\* finds no handle, and the semaphore is released, all without suspending.
TrialConnected(t) ==
    /\ driver = "gather"
    /\ pc[t] = "connect"
    /\ \E o1 \in ConnectOutcomes :
         \E o2 \in SecondOutcomes(o1) :
           \E o3 \in ThirdOutcomes(o1, o2) :
             LET q == ConnectEnd(probes[t], FinalOutcome(o1, o2, o3))
                 ok == ConnectClassify(FinalOutcome(o1, o2, o3)) = "Connected"
             IN IF ok
                THEN /\ probes' = [probes EXCEPT ![t] = q]
                     /\ pc' = [pc EXCEPT ![t] = "send"]
                     /\ UNCHANGED <<semaphore, results>>
                ELSE /\ probes' = [probes EXCEPT ![t] = NewProbe]
                     /\ pc' = [pc EXCEPT ![t] = "done"]
                     /\ results' = [results EXCEPT ![t] =
                            [kind |-> "dict", stats |-> Close(q, "ok").probe.stats]]
                     /\ semaphore' = semaphore + 1
    /\ UNCHANGED <<driver, idx, total_stats>>
    /\ UNCHANGED <<concurrency, sessionVars, modeVars, mainVars>>

\* send_message ends (whatever its outcome, it returns); single_test
\* evaluates "return probe.stats" and its finally block suspends in
\* connection.close().
TrialSent(t) ==
    /\ driver = "gather"
    /\ pc[t] = "send"
    /\ \E out \in SendOutcomes, lat \in Latencies :
         probes' = [probes EXCEPT ![t] = SendMessage(probes[t], out, lat).probe]
    /\ pc' = [pc EXCEPT ![t] = "close"]
    /\ UNCHANGED <<semaphore, results, driver, idx, total_stats>>
    /\ UNCHANGED <<concurrency, sessionVars, modeVars, mainVars>>

TrialClosed_PermitKeptOnRaise(t) ==
    /\ driver = "gather"
    /\ pc[t] = "close"
    /\ \E out \in CloseOutcomes :
         LET c == Close(probes[t], out)
         IN IF c.ret = "ok"
            THEN /\ results' = [results EXCEPT ![t] =
                        [kind |-> "dict", stats |-> c.probe.stats]]
                 /\ pc' = [pc EXCEPT ![t] = "done"]
                 /\ semaphore' = semaphore + 1
            ELSE /\ results' = [results EXCEPT ![t] =
                        [kind |-> "exception", stats |-> InitStats]]
                 /\ pc' = [pc EXCEPT ![t] = "raised"]
                 /\ UNCHANGED semaphore
    /\ probes' = [probes EXCEPT ![t] = NewProbe]
    /\ UNCHANGED <<driver, idx, total_stats>>
    /\ UNCHANGED <<concurrency, sessionVars, modeVars, mainVars>>

\* close ends.  If it returned, the task's result is the stats dict; if it
\* raised, the exception replaces the return value.  Either way the
\* "async with" releases the semaphore and the probe goes out of scope.
TrialClosed(t) ==
    /\ driver = "gather"
    /\ pc[t] = "close"
    /\ \E out \in CloseOutcomes :
         LET c == Close(probes[t], out)
         IN IF c.ret = "ok"
            THEN /\ results' = [results EXCEPT ![t] =
                        [kind |-> "dict", stats |-> c.probe.stats]]
                 /\ pc' = [pc EXCEPT ![t] = "done"]
            ELSE /\ results' = [results EXCEPT ![t] =
                        [kind |-> "exception", stats |-> InitStats]]
                 /\ pc' = [pc EXCEPT ![t] = "raised"]
    /\ probes' = [probes EXCEPT ![t] = NewProbe]
    /\ semaphore' = semaphore + 1
    /\ UNCHANGED <<driver, idx, total_stats>>
    /\ UNCHANGED <<concurrency, sessionVars, modeVars, mainVars>>

\* await asyncio.gather(...) returns and total_stats is initialised.
GatherReturns ==
    /\ driver = "gather"
    /\ GatherReady(results)
    /\ driver' = GatherOutcome(results)
    /\ idx' = 1
    /\ total_stats' = InitStats
    /\ UNCHANGED <<semaphore, pc, probes, results>>
    /\ UNCHANGED <<concurrency, sessionVars, modeVars, mainVars>>

\* for result in results: one iteration.
MergeStep ==
    /\ driver = "merge"
    /\ idx <= Cardinality(Trials)
    /\ total_stats' = MergeResult(total_stats, results[idx])
    /\ idx' = idx + 1
    /\ UNCHANGED <<semaphore, pc, probes, results, driver>>
    /\ UNCHANGED <<concurrency, sessionVars, modeVars, mainVars>>

\* The loop is over: the summary is printed and stress_test returns.
PrintSummary ==
    /\ driver = "merge"
    /\ idx > Cardinality(Trials)
    /\ driver' = "printed"
    /\ UNCHANGED <<semaphore, pc, probes, results, idx, total_stats>>
    /\ UNCHANGED <<concurrency, sessionVars, modeVars, mainVars>>

NextStress ==
    \/ \E t \in Trials : TrialAcquire(t)
    \/ \E t \in Trials : TrialConnected(t)
    \/ \E t \in Trials : TrialSent(t)
    \/ \E t \in Trials : TrialClosed(t)
    \/ GatherReturns
    \/ MergeStep
    \/ PrintSummary

SpecStress == InitSession /\ [][NextStress]_vars

\* The event loop runs every task that is ready, and every awaited library
\* call ends: no step that stays enabled is postponed for ever.
SpecStressFair == SpecStress /\ WF_vars(NextStress)

\* stress_test called with any count and any concurrency, zero included.
InitStressAny ==
    /\ probe = NewProbe
    /\ before = NewProbe
    /\ last = NoCall
    /\ prev = NoCall
    /\ ncalls = 0
    /\ measured = 0
    /\ unanswered = 0
    /\ report = NoReport
    /\ inflight = Idle
    /\ \E n \in 0..MaxCount, c \in 0..MaxConcurrency : InitStressWith(n, c)
    /\ InitNoMode
    /\ InitNoMain

SpecStressAny == InitStressAny /\ [][NextStress]_vars

SpecStressAnyFair == SpecStressAny /\ WF_vars(NextStress)

\* ============================================================= http_probe
\* content[:500]
BodyLimit == 500

\* What the GET of http_probe can end in: a response whose body is read,
\* a response whose body cannot be read, or a failure of the request.
HttpOutcomes ==
    {"response", "body_unreadable", "connect_error", "tls_error", "timeout"}
HttpStatuses == {200, 301, 401, 403, 404, 426, 500}
BodyLengths == {0, BodyLimit - 1, BodyLimit, BodyLimit + 1, 2 * BodyLimit}

HttpProbe_BodyUncut(out, status, len) ==
    IF out = "response"
    THEN [outcome |-> out, ret |-> "returned", shape |-> "result",
          status_code |-> {status}, content |-> {len}]
    ELSE IF out = "body_unreadable"
    THEN [outcome |-> out, ret |-> "returned", shape |-> "result",
          status_code |-> {status}, content |-> {8}]
    ELSE [outcome |-> out, ret |-> "returned", shape |-> "error",
          status_code |-> {}, content |-> {}]

\* WebSocketProbe.http_probe.  A body is modelled by its length; an absent
\* value (None) by the empty set.  The inner bare except replaces an
\* unreadable body by a fixed 8-character text; the outer except turns
\* every failure of the request into the error shape.
HttpProbe(out, status, len) ==
    IF out = "response"
    THEN [outcome |-> out, ret |-> "returned", shape |-> "result",
          status_code |-> {status},
          content |-> {IF len > BodyLimit THEN BodyLimit ELSE len}]
    ELSE IF out = "body_unreadable"
    THEN [outcome |-> out, ret |-> "returned", shape |-> "result",
          status_code |-> {status}, content |-> {8}]
    ELSE [outcome |-> out, ret |-> "returned", shape |-> "error",
          status_code |-> {}, content |-> {}]

\* ============================================================ basic_probe
Did(e) == events' = Append(events, e)

\* The number of times e is in the log.
Times(log, e) == Cardinality({i \in 1..Len(log) : log[i] = e})

AfterConnect_HttpAlways(connected, dbg) ==
    IF connected THEN "ping" ELSE "http"

\* basic_probe after connect has returned: ping and send on success,
\* http_probe on failure when debug is set, else straight to finally.
AfterConnect(connected, dbg) ==
    IF connected THEN "ping" ELSE IF dbg THEN "http" ELSE "close"

modeRest == <<running, interval, sleep_left, stopAt, rx, ninputs, prompt, wire,
              mainVars>>

InitBasic ==
    /\ probe = NewProbe
    /\ before = NewProbe
    /\ last = NoCall
    /\ prev = NoCall
    /\ ncalls = 0
    /\ measured = 0
    /\ unanswered = 0
    /\ report = NoReport
    /\ inflight = Idle
    /\ InitStress
    /\ mode = "basic"
    /\ dpc = "start"
    /\ dprobe = NewProbe
    /\ debug \in BOOLEAN
    /\ events = <<>>
    /\ http_result = NoHttp
    /\ running = TRUE
    /\ interval = 0
    /\ sleep_left = 0
    /\ stopAt = NoStop
    /\ rx = "none"
    /\ ninputs = 0
    /\ prompt = NoLine
    /\ wire = <<>>
    /\ InitNoMain

\* if await probe.connect():
BasicConnect ==
    /\ mode = "basic"
    /\ dpc = "start"
    /\ \E o1 \in ConnectOutcomes :
         \E o2 \in SecondOutcomes(o1) :
           \E o3 \in ThirdOutcomes(o1, o2) :
             LET r == Connect(dprobe, o1, o2, o3)
             IN /\ dprobe' = r.probe
                /\ dpc' = AfterConnect(r.ret = "Connected", debug)
    /\ Did("connect")
    /\ UNCHANGED <<mode, debug, http_result>>
    /\ UNCHANGED <<sessionVars, stressVars, modeRest>>

\* await probe.ping_test()
BasicPing ==
    /\ mode = "basic"
    /\ dpc = "ping"
    /\ \E out \in PingOutcomes : dprobe' = PingTest(dprobe, out).probe
    /\ dpc' = "send"
    /\ Did("ping")
    /\ UNCHANGED <<mode, debug, http_result>>
    /\ UNCHANGED <<sessionVars, stressVars, modeRest>>

\* await probe.send_message(message)
BasicSend ==
    /\ mode = "basic"
    /\ dpc = "send"
    /\ \E out \in SendOutcomes, lat \in Latencies :
         dprobe' = SendMessage(dprobe, out, lat).probe
    /\ dpc' = "close"
    /\ Did("send")
    /\ UNCHANGED <<mode, debug, http_result>>
    /\ UNCHANGED <<sessionVars, stressVars, modeRest>>

\* http_result = await probe.http_probe(), and the printing of it.
BasicHttp ==
    /\ mode = "basic"
    /\ dpc = "http"
    /\ \E out \in HttpOutcomes, status \in HttpStatuses, len \in BodyLengths :
         http_result' = HttpProbe(out, status, len)
    /\ dpc' = "close"
    /\ Did("http_probe")
    /\ UNCHANGED <<mode, debug, dprobe>>
    /\ UNCHANGED <<sessionVars, stressVars, modeRest>>

\* finally: await probe.close(); probe.print_stats().  When close raises,
\* print_stats is not reached and the exception leaves basic_probe.
BasicClose ==
    /\ mode = "basic"
    /\ dpc = "close"
    /\ \E out \in CloseOutcomes :
         LET c == Close(dprobe, out)
         IN /\ dprobe' = c.probe
            /\ IF c.ret = "ok"
               THEN /\ events' = events \o <<"close", "print_stats">>
                    /\ dpc' = "returned"
               ELSE /\ events' = Append(events, "close")
                    /\ dpc' = "raised"
    /\ UNCHANGED <<mode, debug, http_result>>
    /\ UNCHANGED <<sessionVars, stressVars, modeRest>>

\* The peer (or the network) ends the driver's open connection on its own.
DriverPeerCloses ==
    /\ mode # "none"
    /\ ~(dpc \in {"returned", "raised"})
    /\ dprobe.connection = "OPEN"
    /\ dprobe' = [dprobe EXCEPT !.connection = "CLOSED"]
    /\ UNCHANGED <<mode, dpc, debug, events, http_result>>
    /\ UNCHANGED <<sessionVars, stressVars, modeRest>>

NextBasic ==
    \/ DriverPeerCloses
    \/ BasicConnect
    \/ BasicPing
    \/ BasicSend
    \/ BasicHttp
    \/ BasicClose

SpecBasic == InitBasic /\ [][NextBasic]_vars

\* ================================= basic_probe of the Python 3.6 copy
\* python_backup/websocket_probe_py36.py.  Its connect, ping_test, close
\* and http_probe are those of websocket_probe.py up to the text they log;
\* its send_message and its basic_probe are not.

\* send_message of the copy: connection.send and connection.recv are both
\* under wait_for, and messages_sent is counted together with
\* messages_received, once the reply is there; every other path returns
\* False with the stats as they were.
SendMessagePy36(p, out, lat) ==
    IF p.connection = "None"
    THEN [probe |-> p, ret |-> "NotConnected", net |-> 0]
    ELSE LET r == Transmit(p, out, lat)
         IN IF r.ret = "Latency" THEN r
            ELSE [r EXCEPT !.probe.stats = p.stats]

\* What basic_probe of the copy prints of http_result, and whether it
\* raises: under "if 'error' in http_result" it prints the status code
\* and the content type, otherwise it evaluates http_result['error'],
\* which is a KeyError on a result that has no such key; then come the
\* headers and the content when they are not empty.
SnapshotPy36(h) ==
    IF h.shape = "error"
    THEN [raised |-> FALSE,
          printed |-> <<"print_status_code", "print_content_type">>
                      \o (IF h.content \notin {{}, {0}}
                          THEN <<"print_content">> ELSE <<>>)]
    ELSE [raised |-> TRUE, printed |-> <<>>]

InitBasicPy36 ==
    /\ probe = NewProbe
    /\ before = NewProbe
    /\ last = NoCall
    /\ prev = NoCall
    /\ ncalls = 0
    /\ measured = 0
    /\ unanswered = 0
    /\ report = NoReport
    /\ inflight = Idle
    /\ InitStress
    /\ mode = "basic_py36"
    /\ dpc = "start"
    /\ dprobe = NewProbe
    /\ debug \in BOOLEAN
    /\ events = <<>>
    /\ http_result = NoHttp
    /\ running = TRUE
    /\ interval = 0
    /\ sleep_left = 0
    /\ stopAt = NoStop
    /\ rx = "none"
    /\ ninputs = 0
    /\ prompt = NoLine
    /\ wire = <<>>
    /\ InitNoMain

\* if not await probe.connect(): [if debug: ...] return
Py36Connect ==
    /\ mode = "basic_py36"
    /\ dpc = "start"
    /\ \E o1 \in ConnectOutcomes :
         \E o2 \in SecondOutcomes(o1) :
           \E o3 \in ThirdOutcomes(o1, o2) :
             LET r == Connect(dprobe, o1, o2, o3)
             IN /\ dprobe' = r.probe
                /\ dpc' = IF r.ret = "Connected" THEN "ping"
                          ELSE IF debug THEN "http" ELSE "returned"
    /\ Did("connect")
    /\ UNCHANGED <<mode, debug, http_result>>
    /\ UNCHANGED <<sessionVars, stressVars, modeRest>>

\* http_result = await probe.http_probe()
Py36Http ==
    /\ mode = "basic_py36"
    /\ dpc = "http"
    /\ \E out \in HttpOutcomes, status \in HttpStatuses, len \in BodyLengths :
         http_result' = HttpProbe(out, status, len)
    /\ dpc' = "snapshot"
    /\ Did("http_probe")
    /\ UNCHANGED <<mode, debug, dprobe>>
    /\ UNCHANGED <<sessionVars, stressVars, modeRest>>

\* The printing of http_result, then return; or the KeyError leaves
\* basic_probe.
Py36Snapshot ==
    /\ mode = "basic_py36"
    /\ dpc = "snapshot"
    /\ events' = events \o SnapshotPy36(http_result).printed
    /\ dpc' = IF SnapshotPy36(http_result).raised THEN "raised" ELSE "returned"
    /\ UNCHANGED <<mode, debug, dprobe, http_result>>
    /\ UNCHANGED <<sessionVars, stressVars, modeRest>>

\* await probe.ping_test()
Py36Ping ==
    /\ mode = "basic_py36"
    /\ dpc = "ping"
    /\ \E out \in PingOutcomes : dprobe' = PingTest(dprobe, out).probe
    /\ dpc' = "send"
    /\ Did("ping")
    /\ UNCHANGED <<mode, debug, http_result>>
    /\ UNCHANGED <<sessionVars, stressVars, modeRest>>

\* await probe.send_message(message)
Py36Send ==
    /\ mode = "basic_py36"
    /\ dpc = "send"
    /\ \E out \in SendOutcomes, lat \in Latencies :
         dprobe' = SendMessagePy36(dprobe, out, lat).probe
    /\ dpc' = "close"
    /\ Did("send")
    /\ UNCHANGED <<mode, debug, http_result>>
    /\ UNCHANGED <<sessionVars, stressVars, modeRest>>

\* await probe.close(); probe.print_stats(), outside any try block.
Py36Close ==
    /\ mode = "basic_py36"
    /\ dpc = "close"
    /\ \E out \in CloseOutcomes :
         LET c == Close(dprobe, out)
         IN /\ dprobe' = c.probe
            /\ IF c.ret = "ok"
               THEN /\ events' = events \o <<"close", "print_stats">>
                    /\ dpc' = "returned"
               ELSE /\ events' = Append(events, "close")
                    /\ dpc' = "raised"
    /\ UNCHANGED <<mode, debug, http_result>>
    /\ UNCHANGED <<sessionVars, stressVars, modeRest>>

NextBasicPy36 ==
    \/ DriverPeerCloses
    \/ Py36Connect
    \/ Py36Http
    \/ Py36Snapshot
    \/ Py36Ping
    \/ Py36Send
    \/ Py36Close

SpecBasicPy36 == InitBasicPy36 /\ [][NextBasicPy36]_vars

\* ======================================================= continuous_probe
Cycles == Times(events, "connect")

LoopContinues_Always(run) == TRUE

\* while self.running:
LoopContinues(run) == run

CycleProbe_Fresh(p) == NewProbe

\* The probe is built once, before the loop: every cycle uses the same one.
CycleProbe(p) == p

\* await asyncio.sleep(interval) returns when the interval has elapsed,
\* whatever the running flag has become meanwhile.
SleepOver(left, run) == left = 0

contRest == <<mode, debug, http_result, interval, rx, ninputs, prompt, wire,
              mainVars>>

InitContinuous ==
    /\ probe = NewProbe
    /\ before = NewProbe
    /\ last = NoCall
    /\ prev = NoCall
    /\ ncalls = 0
    /\ measured = 0
    /\ unanswered = 0
    /\ report = NoReport
    /\ inflight = Idle
    /\ InitStress
    /\ mode = "continuous"
    /\ dpc = "while"
    /\ dprobe = NewProbe
    /\ debug = FALSE
    /\ events = <<>>
    /\ http_result = NoHttp
    /\ running = TRUE
    /\ interval \in 0..MaxInterval
    /\ sleep_left = 0
    /\ stopAt = NoStop
    /\ rx = "none"
    /\ ninputs = 0
    /\ prompt = NoLine
    /\ wire = <<>>
    /\ InitNoMain

\* The driver that was started has come to its end.
Finished ==
    \/ dpc \in {"returned", "raised"}
    \/ (mode = "stress" /\ driver = "printed")

\* signal_handler: self.running = False.  It can run between any two
\* steps of the driver; stopAt notes where the first one found it.
StopSignal ==
    /\ (mode = "continuous" \/ mpc = "run")
    /\ running
    /\ ~Finished
    /\ running' = FALSE
    /\ stopAt' = IF mode = "continuous"
                 THEN [cycle |-> Cycles, pc |-> dpc, left |-> sleep_left]
                 ELSE stopAt
    /\ UNCHANGED <<dpc, dprobe, events, sleep_left>>
    /\ UNCHANGED <<sessionVars, stressVars, contRest>>

\* The loop test; when it passes, connect starts and counts the attempt.
ContinuousLoop ==
    /\ mode = "continuous"
    /\ dpc = "while"
    /\ IF LoopContinues(running)
       THEN /\ Cycles < MaxCycles
            /\ dprobe' = ConnectBegin(CycleProbe(dprobe))
            /\ Did("connect")
            /\ dpc' = "connect"
       ELSE /\ dpc' = "finally"
            /\ UNCHANGED <<dprobe, events>>
    /\ UNCHANGED <<running, stopAt, sleep_left>>
    /\ UNCHANGED <<sessionVars, stressVars, contRest>>

\* connect returns: on success the cycle goes on, on failure it is over.
ContinuousConnected ==
    /\ mode = "continuous"
    /\ dpc = "connect"
    /\ \E o1 \in ConnectOutcomes :
         \E o2 \in SecondOutcomes(o1) :
           \E o3 \in ThirdOutcomes(o1, o2) :
             /\ dprobe' = ConnectEnd(dprobe, FinalOutcome(o1, o2, o3))
             /\ dpc' = IF ConnectClassify(FinalOutcome(o1, o2, o3)) = "Connected"
                       THEN "ping" ELSE "if"
    /\ UNCHANGED <<events, running, stopAt, sleep_left>>
    /\ UNCHANGED <<sessionVars, stressVars, contRest>>

ContinuousPing ==
    /\ mode = "continuous"
    /\ dpc = "ping"
    /\ \E out \in PingOutcomes : dprobe' = PingTest(dprobe, out).probe
    /\ dpc' = "send"
    /\ Did("ping")
    /\ UNCHANGED <<running, stopAt, sleep_left>>
    /\ UNCHANGED <<sessionVars, stressVars, contRest>>

ContinuousSend ==
    /\ mode = "continuous"
    /\ dpc = "send"
    /\ \E out \in SendOutcomes, lat \in Latencies :
         dprobe' = SendMessage(dprobe, out, lat).probe
    /\ dpc' = "close"
    /\ Did("send")
    /\ UNCHANGED <<running, stopAt, sleep_left>>
    /\ UNCHANGED <<sessionVars, stressVars, contRest>>

\* The close that ends a cycle.  An exception it raises is no
\* KeyboardInterrupt: it leaves the loop for the finally block.
ContinuousClose ==
    /\ mode = "continuous"
    /\ dpc = "close"
    /\ \E out \in CloseOutcomes :
         LET c == Close(dprobe, out)
         IN /\ dprobe' = c.probe
            /\ dpc' = IF c.ret = "ok" THEN "if" ELSE "finally_raising"
    /\ Did("close")
    /\ UNCHANGED <<running, stopAt, sleep_left>>
    /\ UNCHANGED <<sessionVars, stressVars, contRest>>

ContinuousIf_AlwaysSleeps ==
    /\ mode = "continuous"
    /\ dpc = "if"
    /\ dpc' = "sleep"
    /\ sleep_left' = interval
    /\ UNCHANGED <<dprobe, events, running, stopAt>>
    /\ UNCHANGED <<sessionVars, stressVars, contRest>>

\* if self.running: await asyncio.sleep(interval)
ContinuousIf ==
    /\ mode = "continuous"
    /\ dpc = "if"
    /\ IF running
       THEN /\ dpc' = "sleep"
            /\ sleep_left' = interval
       ELSE /\ dpc' = "while"
            /\ UNCHANGED sleep_left
    /\ UNCHANGED <<dprobe, events, running, stopAt>>
    /\ UNCHANGED <<sessionVars, stressVars, contRest>>

\* The clock advances during the sleep.
Tick ==
    /\ mode = "continuous"
    /\ dpc = "sleep"
    /\ sleep_left > 0
    /\ sleep_left' = sleep_left - 1
    /\ UNCHANGED <<dpc, dprobe, events, running, stopAt>>
    /\ UNCHANGED <<sessionVars, stressVars, contRest>>

ContinuousWake ==
    /\ mode = "continuous"
    /\ dpc = "sleep"
    /\ SleepOver(sleep_left, running)
    /\ dpc' = "while"
    /\ UNCHANGED <<dprobe, events, running, stopAt, sleep_left>>
    /\ UNCHANGED <<sessionVars, stressVars, contRest>>

\* finally: await probe.close(); probe.print_stats(); then the coroutine
\* returns, or re-raises the exception that left the loop.
ContinuousFinally ==
    /\ mode = "continuous"
    /\ dpc \in {"finally", "finally_raising"}
    /\ \E out \in CloseOutcomes :
         LET c == Close(dprobe, out)
         IN /\ dprobe' = c.probe
            /\ IF c.ret = "ok"
               THEN /\ events' = events \o <<"close", "print_stats">>
                    /\ dpc' = IF dpc = "finally" THEN "returned" ELSE "raised"
               ELSE /\ events' = Append(events, "close")
                    /\ dpc' = "raised"
    /\ UNCHANGED <<running, stopAt, sleep_left>>
    /\ UNCHANGED <<sessionVars, stressVars, contRest>>

NextContinuous ==
    \/ DriverPeerCloses
    \/ StopSignal
    \/ ContinuousLoop
    \/ ContinuousConnected
    \/ ContinuousPing
    \/ ContinuousSend
    \/ ContinuousClose
    \/ ContinuousIf
    \/ Tick
    \/ ContinuousWake
    \/ ContinuousFinally

SpecContinuous == InitContinuous /\ [][NextContinuous]_vars

\* What continuous_probe does by itself: every call it awaits ends and
\* the clock of its sleep advances.  The signal and the peer are free.
ContinuousSteps ==
    \/ ContinuousLoop
    \/ ContinuousConnected
    \/ ContinuousPing
    \/ ContinuousSend
    \/ ContinuousClose
    \/ ContinuousIf
    \/ Tick
    \/ ContinuousWake
    \/ ContinuousFinally

SpecContinuousFair == SpecContinuous /\ WF_vars(ContinuousSteps)

\* ======================================================= interactive_mode
\* Lines the operator may type.
Inputs == {"quit", "exit", "Q", "ping", "stats", "help", "", " ",
           "hello", " quit "}

\* str.lower() and str.strip() on those lines.
Lower(x) == IF x = "Q" THEN "q" ELSE x
Strip(x) == CASE x = " " -> "" [] x = " quit " -> "quit" [] OTHER -> x

Command_BlankIsMessage(x) ==
    IF Lower(x) \in {"quit", "exit", "q"} THEN "quit"
    ELSE IF Lower(x) = "ping" THEN "ping"
    ELSE IF Lower(x) = "stats" THEN "stats"
    ELSE IF Lower(x) = "help" THEN "help"
    ELSE IF x = "" THEN "blank"
    ELSE "message"

\* The if / elif chain of the prompt loop: the commands are compared
\* after lower() only, the blank test strips the line.
Command(x) ==
    IF Lower(x) \in {"quit", "exit", "q"} THEN "quit"
    ELSE IF Lower(x) = "ping" THEN "ping"
    ELSE IF Lower(x) = "stats" THEN "stats"
    ELSE IF Lower(x) = "help" THEN "help"
    ELSE IF Strip(x) = "" THEN "blank"
    ELSE "message"

\* What awaiting probe.connection.send(user_input) can end in.
RawSendOutcomes == {"sent", "closed", "error"}

interRest == <<mode, debug, http_result, running, interval, sleep_left, stopAt,
               mainVars>>

InitInteractive ==
    /\ probe = NewProbe
    /\ before = NewProbe
    /\ last = NoCall
    /\ prev = NoCall
    /\ ncalls = 0
    /\ measured = 0
    /\ unanswered = 0
    /\ report = NoReport
    /\ inflight = Idle
    /\ InitStress
    /\ mode = "interactive"
    /\ dpc = "start"
    /\ dprobe = NewProbe
    /\ debug \in BOOLEAN
    /\ events = <<>>
    /\ http_result = NoHttp
    /\ running = TRUE
    /\ interval = 0
    /\ sleep_left = 0
    /\ stopAt = NoStop
    /\ rx = "none"
    /\ ninputs = 0
    /\ prompt = NoLine
    /\ wire = <<>>
    /\ InitNoMain

\* if not await probe.connect(): return (through finally, where close
\* finds no handle); else the receive task is created and the prompt
\* loop starts.
InteractiveConnect ==
    /\ mode = "interactive"
    /\ dpc = "start"
    /\ \E o1 \in ConnectOutcomes :
         \E o2 \in SecondOutcomes(o1) :
           \E o3 \in ThirdOutcomes(o1, o2) :
             LET r == Connect(dprobe, o1, o2, o3)
             IN IF r.ret = "Connected"
                THEN /\ dprobe' = r.probe
                     /\ rx' = "running"
                     /\ dpc' = "prompt"
                     /\ Did("connect")
                ELSE /\ dprobe' = Close(r.probe, "ok").probe
                     /\ rx' = rx
                     /\ dpc' = "returned"
                     /\ events' = events \o <<"connect", "close", "print_stats">>
    /\ UNCHANGED <<ninputs, prompt, wire>>
    /\ UNCHANGED <<sessionVars, stressVars, interRest>>

\* probe.stats['messages_sent'] += 1 after the await of connection.send:
\* the counter is read and written in one go, on the stats as they are
\* now (cur), not as they were when the line was read (seen).
CountSent_FromSnapshot(cur, seen) ==
    [seen EXCEPT !.messages_sent = @ + 1]

CountSent(cur, seen) ==
    [cur EXCEPT !.messages_sent = @ + 1]

\* probe.stats['messages_received'] += 1 right after recv has returned.
CountReceived(cur) ==
    [cur EXCEPT !.messages_received = @ + 1]

\* receive_task.cancel() followed by await receive_task: a task that is
\* still waiting in recv gets CancelledError instead of a message and
\* ends; a task that has ended stays as it is.
Cancelled_NotCancelled(r) == r

Cancelled(r) == IF r = "running" THEN "cancelled" ELSE r

\* One line is read and dispatched.  quit / exit / q leave the loop; ping
\* runs ping_test; stats, help and a blank line do nothing to the session;
\* any other line is handed to connection.send, which is awaited.
InteractiveInput ==
    /\ mode = "interactive"
    /\ dpc = "prompt"
    /\ \E x \in Inputs :
         /\ (ninputs < MaxInputs \/ Command(x) = "quit")
         /\ CASE Command(x) = "quit" ->
                   /\ dpc' = "cancel"
                   /\ prompt' = [line |-> x, handled |-> "quit",
                                 seen |-> dprobe.stats]
                   /\ UNCHANGED <<dprobe, events>>
              [] Command(x) = "ping" ->
                   /\ \E o \in PingOutcomes :
                        dprobe' = PingTest(dprobe, o).probe
                   /\ prompt' = [line |-> x, handled |-> "ping",
                                 seen |-> dprobe.stats]
                   /\ Did("ping")
                   /\ UNCHANGED dpc
              [] Command(x) \in {"stats", "help", "blank"} ->
                   /\ prompt' = [line |-> x, handled |-> Command(x),
                                 seen |-> dprobe.stats]
                   /\ UNCHANGED <<dpc, dprobe, events>>
              [] OTHER ->
                   /\ dpc' = "sending"
                   /\ prompt' = [line |-> x, handled |-> "sending",
                                 seen |-> dprobe.stats]
                   /\ UNCHANGED <<dprobe, events>>
    /\ ninputs' = ninputs + 1
    /\ UNCHANGED <<rx, wire>>
    /\ UNCHANGED <<sessionVars, stressVars, interRest>>

\* connection.send(user_input) returns, and messages_sent is counted; or
\* it raises, nothing is counted and except Exception leaves the loop.
InteractiveSendEnds ==
    /\ mode = "interactive"
    /\ dpc = "sending"
    /\ \E o \in RawSendOutcomes :
         IF dprobe.connection = "OPEN" /\ o = "sent"
         THEN /\ dprobe' = [dprobe EXCEPT
                               !.stats = CountSent(dprobe.stats, prompt.seen)]
              /\ wire' = Append(wire, prompt.line)
              /\ prompt' = [prompt EXCEPT !.handled = "sent"]
              /\ Did("sent")
              /\ dpc' = "prompt"
         ELSE /\ dprobe' = [dprobe EXCEPT !.connection =
                               IF o = "error" THEN @ ELSE "CLOSED"]
              /\ prompt' = [prompt EXCEPT !.handled = "send_failed"]
              /\ Did("send_failed")
              /\ dpc' = "cancel"
              /\ UNCHANGED wire
    /\ UNCHANGED <<rx, ninputs>>
    /\ UNCHANGED <<sessionVars, stressVars, interRest>>

\* except KeyboardInterrupt: break
InteractiveInterrupt ==
    /\ mode = "interactive"
    /\ dpc = "prompt"
    /\ mpc = "none"
    /\ dpc' = "cancel"
    /\ Did("interrupt")
    /\ UNCHANGED <<dprobe, rx, ninputs, prompt, wire>>
    /\ UNCHANGED <<sessionVars, stressVars, interRest>>

\* _message_receiver: recv returns a message, which is counted and
\* printed before the task awaits again.
ReceiverGets ==
    /\ mode = "interactive"
    /\ rx = "running"
    /\ dprobe.connection = "OPEN"
    /\ dprobe.stats.messages_received < MaxInbound
    /\ dprobe' = [dprobe EXCEPT !.stats = CountReceived(dprobe.stats)]
    /\ Did("recv")
    /\ UNCHANGED <<dpc, rx, ninputs, prompt, wire>>
    /\ UNCHANGED <<sessionVars, stressVars, interRest>>

\* _message_receiver: recv raises (the connection was closed, or another
\* error) and the loop of the task breaks.
ReceiverStops ==
    /\ mode = "interactive"
    /\ rx = "running"
    /\ rx' = "done"
    /\ dprobe' = dprobe
    /\ UNCHANGED <<dpc, events, ninputs, prompt, wire>>
    /\ UNCHANGED <<sessionVars, stressVars, interRest>>

\* receive_task.cancel(); await receive_task; then the try block is left.
InteractiveCancel ==
    /\ mode = "interactive"
    /\ dpc = "cancel"
    /\ rx' = Cancelled(rx)
    /\ dpc' = "close"
    /\ Did("cancel")
    /\ UNCHANGED <<dprobe, ninputs, prompt, wire>>
    /\ UNCHANGED <<sessionVars, stressVars, interRest>>

\* finally: probe.close() is called and awaits connection.close().
InteractiveCloseBegins ==
    /\ mode = "interactive"
    /\ dpc = "close"
    /\ dpc' = "closing"
    /\ Did("closing")
    /\ UNCHANGED <<dprobe, rx, ninputs, prompt, wire>>
    /\ UNCHANGED <<sessionVars, stressVars, interRest>>

\* connection.close() returns, and the final stats are printed; or it
\* raises, and the exception leaves interactive_mode.
InteractiveClose ==
    /\ mode = "interactive"
    /\ dpc = "closing"
    /\ \E o \in CloseOutcomes :
         LET c == Close(dprobe, o)
         IN /\ dprobe' = c.probe
            /\ IF c.ret = "ok"
               THEN /\ events' = events \o <<"close", "print_stats">>
                    /\ dpc' = "returned"
               ELSE /\ events' = Append(events, "close")
                    /\ dpc' = "raised"
    /\ UNCHANGED <<rx, ninputs, prompt, wire>>
    /\ UNCHANGED <<sessionVars, stressVars, interRest>>

\* The peer ends the connection of an interactive session.
InteractivePeerCloses ==
    /\ mode = "interactive"
    /\ ~(dpc \in {"returned", "raised"})
    /\ dprobe.connection = "OPEN"
    /\ dprobe' = [dprobe EXCEPT !.connection = "CLOSED"]
    /\ UNCHANGED <<dpc, events, rx, ninputs, prompt, wire>>
    /\ UNCHANGED <<sessionVars, stressVars, interRest>>

\* What interactive_mode, its receive task, the operator and the peer do
\* when SIGINT is handled by signal_handler.
InteractiveSteps ==
    \/ InteractivePeerCloses
    \/ InteractiveConnect
    \/ InteractiveInput
    \/ InteractiveSendEnds
    \/ ReceiverGets
    \/ ReceiverStops
    \/ InteractiveCancel
    \/ InteractiveCloseBegins
    \/ InteractiveClose

NextInteractive ==
    \/ InteractiveSteps
    \/ InteractiveInterrupt

SpecInteractive == InitInteractive /\ [][NextInteractive]_vars

\* ================================================ the sequential drivers
\* main starts one driver; the three sequential ones share the log.
InitModes == InitBasic \/ InitContinuous \/ InitInteractive

NextModes == NextBasic \/ NextContinuous \/ NextInteractive

SpecModes == InitModes /\ [][NextModes]_vars

\* =================================================================== main
Modes == {"basic", "continuous", "stress", "interactive"}

\* default=5 of --timeout, and of WebSocketProbe(timeout=...), in seconds.
DefaultTimeout == 5

\* One parsed command line.  scheme is urlparse(uri).scheme; headers tells
\* what text --headers carries: "absent" (the option is not given),
\* "empty" (the empty string), "object" (a JSON object) or "malformed"
\* (a text json.loads rejects).
Args(m, scheme, headers, timeout, skip, dbg, iv) ==
    [mode |-> m, scheme |-> scheme, headers |-> headers, timeout |-> timeout,
     skip_ssl_verify |-> skip, debug |-> dbg, interval |-> iv]

\* The command lines the runs start from: every mode with the defaults,
\* the basic and the continuous mode with every option set, the basic mode
\* with the verification switched off on a plain ws URI and left on with
\* TLS, and the command lines with a wrong scheme or a --headers that is
\* not an object.
CommandLines ==
    {Args(m, "ws", "absent", DefaultTimeout, FALSE, FALSE, 0) : m \in Modes}
        \cup
    {Args(m, "wss", "object", 2 * DefaultTimeout, TRUE, TRUE, 1) :
        m \in {"basic", "continuous"}}
        \cup
    {Args("basic", "ws", "object", DefaultTimeout, TRUE, FALSE, 0),
     Args("basic", "wss", "absent", DefaultTimeout, FALSE, TRUE, 0),
     Args("basic", "ws", "empty", DefaultTimeout, FALSE, FALSE, 0),
     Args("basic", "http", "malformed", DefaultTimeout, FALSE, FALSE, 0)}
        \cup
    {Args(m, "http", "absent", DefaultTimeout, FALSE, FALSE, 0) : m \in Modes}
        \cup
    {Args(m, "", "object", DefaultTimeout, FALSE, FALSE, 0) : m \in Modes}
        \cup
    {Args(m, "ws", "malformed", DefaultTimeout, FALSE, FALSE, 0) : m \in Modes}

\* if args.headers: try json.loads(args.headers) except JSONDecodeError.
\* An option that is absent or empty is falsy and is not parsed.
ParseHeaders(h) ==
    IF h \in {"absent", "empty"} THEN "none"
    ELSE IF h = "malformed" THEN "error"
    ELSE "dict"

\* parsed_uri.scheme not in ['ws', 'wss']
SchemeAccepted(scheme) == scheme \in {"ws", "wss"}

\* The start-up lines main prints; the one on certificate verification
\* only under --skip-ssl-verify.
Banner(a) ==
    IF a.skip_ssl_verify THEN <<"banner", "ssl_verify_disabled">>
    ELSE <<"banner">>

ProbeArgs_NeverVerify(a) ==
    [made |-> TRUE, timeout |-> DefaultTimeout, skip_ssl_verify |-> TRUE]

\* WebSocketProbe(uri, headers=headers, skip_ssl_verify=skip_ssl_verify
\* [, debug=debug]), as each of the four drivers calls it: no timeout is
\* passed, so the session keeps the default of the constructor.
ProbeArgs(a) ==
    [made |-> TRUE, timeout |-> DefaultTimeout,
     skip_ssl_verify |-> a.skip_ssl_verify]

\* connect: the SSL context exists for wss:// only, and has
\* check_hostname = False and verify_mode = CERT_NONE when
\* skip_ssl_verify is set.
VerifyDisabled(scheme, skip) == scheme = "wss" /\ skip

\* Where each driver starts.
FirstStep(m) ==
    CASE m = "basic" -> "start"
      [] m = "continuous" -> "while"
      [] m = "interactive" -> "start"
      [] OTHER -> "idle"

InitMain ==
    /\ probe = NewProbe
    /\ before = NewProbe
    /\ last = NoCall
    /\ prev = NoCall
    /\ ncalls = 0
    /\ measured = 0
    /\ unanswered = 0
    /\ report = NoReport
    /\ inflight = Idle
    /\ InitStress
    /\ InitNoMode
    /\ args \in CommandLines
    /\ mpc = "start"
    /\ exit_code = {}
    /\ stdout = <<>>
    /\ cfg = NoCfg

\* main from parse_args to run_until_complete: the headers are parsed,
\* the scheme is checked, the runner is made, the signal handlers are
\* installed, the start-up lines are printed and the driver of the mode is
\* started, which builds its WebSocketProbe.
MainStart ==
    /\ mpc = "start"
    /\ IF ParseHeaders(args.headers) = "error"
       THEN /\ stdout' = <<"headers_error">>
            /\ exit_code' = {1}
            /\ mpc' = "exited"
            /\ UNCHANGED <<cfg, mode, dpc, debug, interval>>
       ELSE IF ~SchemeAccepted(args.scheme)
       THEN /\ stdout' = <<"uri_error">>
            /\ exit_code' = {1}
            /\ mpc' = "exited"
            /\ UNCHANGED <<cfg, mode, dpc, debug, interval>>
       ELSE /\ stdout' = Banner(args)
            /\ mpc' = "run"
            /\ mode' = args.mode
            /\ dpc' = FirstStep(args.mode)
            /\ debug' = (args.mode \in {"basic", "interactive"} /\ args.debug)
            /\ interval' = IF args.mode = "continuous" THEN args.interval ELSE 0
            /\ cfg' = ProbeArgs(args)
            /\ UNCHANGED exit_code
    /\ UNCHANGED <<args, dprobe, events, http_result, running, sleep_left,
                   stopAt, rx, ninputs, prompt, wire>>
    /\ UNCHANGED <<sessionVars, stressVars>>

MainReturn_AlwaysOne ==
    /\ mpc = "run"
    /\ Finished
    /\ mpc' = "exited"
    /\ exit_code' = {1}
    /\ stdout' = Append(stdout, "run_error")
    /\ UNCHANGED <<args, cfg>>
    /\ UNCHANGED <<sessionVars, stressVars, modeVars>>

\* run_until_complete returns and main returns 0; or the driver raised,
\* except Exception prints the error and main returns 1.  The handlers
\* main installed take SIGINT and SIGTERM, so the KeyboardInterrupt
\* branch is not taken once the driver runs.
MainReturn ==
    /\ mpc = "run"
    /\ Finished
    /\ mpc' = "exited"
    /\ IF dpc = "raised"
       THEN /\ exit_code' = {1}
            /\ stdout' = Append(stdout, "run_error")
       ELSE /\ exit_code' = {0}
            /\ UNCHANGED stdout
    /\ UNCHANGED <<args, cfg>>
    /\ UNCHANGED <<sessionVars, stressVars, modeVars>>

\* stress_test, once main has started it.
StressSteps == mode = "stress" /\ NextStress

NextMain ==
    \/ MainStart
    \/ MainReturn
    \/ NextBasic
    \/ NextContinuous
    \/ InteractiveSteps
    \/ StressSteps

SpecMain == InitMain /\ [][NextMain]_vars

\* What the program does by itself: main, the drivers, the clock of the
\* sleep and the library calls, which all end.  The operator, the peer
\* and the signal are free to do nothing.
ProgramSteps ==
    \/ MainStart
    \/ MainReturn
    \/ BasicConnect \/ BasicPing \/ BasicSend \/ BasicHttp \/ BasicClose
    \/ ContinuousLoop \/ ContinuousConnected \/ ContinuousPing
    \/ ContinuousSend \/ ContinuousClose \/ ContinuousIf \/ Tick
    \/ ContinuousWake \/ ContinuousFinally
    \/ InteractiveConnect \/ InteractiveSendEnds \/ InteractiveCancel
    \/ InteractiveCloseBegins \/ InteractiveClose
    \/ StressSteps

SpecMainFair == SpecMain /\ WF_vars(ProgramSteps)

\* ------------------------------------------------- claims on the session
\* C1: after every connect call on a session, whatever its outcome and
\* whether or not it went through the header-parameter fallback,
\* successful_connections + failed_connections = connection_attempts.
C1_AttemptsBalance ==
    probe.stats.successful_connections + probe.stats.failed_connections
        = probe.stats.connection_attempts

\* A connect that went through both fallbacks has returned, on a session
\* that has seen a success and a failure.
C1_Witness ==
    /\ last.op = "connect"
    /\ last.net = 3
    /\ probe.stats.successful_connections > 0
    /\ probe.stats.failed_connections > 0

\* C8: send_message on a session that never connected takes the
\* NotConnected path, calls nothing on a connection and leaves the
\* session, all of its stats included, as it was.
C8_SendNeverConnected ==
    (last.op = "send" /\ before.stats.successful_connections = 0)
        => /\ last.ret = "NotConnected"
           /\ last.net = 0
           /\ probe = before

\* send_message was called on a session whose only connect had failed.
C8_Witness ==
    /\ last.op = "send"
    /\ before.stats.successful_connections = 0
    /\ before.stats.failed_connections > 0
    /\ last.ret = "NotConnected"

\* C9: close never fails, in any session state, and a close that follows
\* a close leaves the session and its stats as the first left them.
C9_CloseSafeIdempotent ==
    last.op = "close"
        => /\ last.ret = "ok"
           /\ (prev.op = "close" => probe = before)

\* C10: the session holds a handle only between a successful connect and
\* the close that follows: none before the first success, none after a
\* failed connect on a session that had none, none once close has
\* returned, so that a send or ping right after close takes the
\* NotConnected path.
C10_HandleOnlyWhileLive ==
    /\ (probe.stats.successful_connections = 0 => probe.connection = "None")
    /\ ((last.op = "connect" /\ last.ret # "Connected"
            /\ before.connection = "None") => probe.connection = "None")
    /\ ((last.op = "close" /\ last.ret = "ok") => probe.connection = "None")
    /\ ((last.op \in {"send", "ping"} /\ prev.op = "close")
            => last.ret = "NotConnected")

\* C11: a send_message on a connected session whose reply arrives in time
\* adds 1 to messages_sent and 1 to messages_received, adds the measured
\* latency to total_response_time, folds it into min_response_time and
\* max_response_time, and changes no connection counter.
C11_SendReplyFolded ==
    (last.op = "send" /\ last.ret = "Latency")
        => /\ before.connection = "OPEN"
           /\ probe.stats =
                 [before.stats EXCEPT
                    !.messages_sent = @ + 1,
                    !.messages_received = @ + 1,
                    !.total_response_time = @ + measured,
                    !.min_response_time =
                        IF measured < @ THEN measured ELSE @,
                    !.max_response_time =
                        IF measured > @ THEN measured ELSE @]

\* A second reply has arrived, faster than the first: the minimum moves
\* and the maximum stays.
C11_Witness ==
    /\ last.op = "send"
    /\ last.ret = "Latency"
    /\ before.stats.messages_received = 1
    /\ measured < before.stats.min_response_time
    /\ measured < before.stats.max_response_time

\* C12: a send_message on a connected session whose reply does not arrive
\* within the timeout returns the failure outcome and leaves
\* messages_received, total_response_time, min_response_time and
\* max_response_time as they were.
C12_SendTimeoutKeepsLatency ==
    (last.op = "send" /\ last.ret = "Timeout")
        => /\ before.connection = "OPEN"
           /\ probe.stats.messages_received = before.stats.messages_received
           /\ probe.stats.total_response_time
                 = before.stats.total_response_time
           /\ probe.stats.min_response_time = before.stats.min_response_time
           /\ probe.stats.max_response_time = before.stats.max_response_time

\* A reply timed out on a session that already held a latency sample.
C12_Witness ==
    /\ last.op = "send"
    /\ last.ret = "Timeout"
    /\ before.stats.messages_received > 0
    /\ probe.stats.messages_sent = before.stats.messages_sent + 1

\* C13: ping_test leaves every stats field as it was, whether it succeeds,
\* times out, fails or is called without a connection.
C13_PingKeepsStats ==
    last.op = "ping"
        => /\ last.ret \in {"ok", "Timeout", "Other", "NotConnected"}
           /\ probe.stats = before.stats

\* A ping succeeded on a session that had exchanged a message.
C13_Witness ==
    /\ last.op = "ping"
    /\ last.ret = "ok"
    /\ before.stats.messages_received > 0

\* ---------------------------------------------- claims on the stress run
\* The trials that have passed the gate and not yet left it.
Admitted == {t \in Trials : pc[t] \in {"connect", "send", "close"}}

\* The trials whose task returned its stats, and those whose task raised.
Returned == {t \in Trials : results[t].kind = "dict"}
Raised == {t \in Trials : results[t].kind = "exception"}
Receiving == {t \in Returned : results[t].stats.messages_received >= 1}

RECURSIVE SumOver(_, _)
SumOver(S, key) ==
    IF S = {} THEN 0
    ELSE LET t == CHOOSE x \in S : TRUE
         IN results[t].stats[key] + SumOver(S \ {t}, key)

\* The least / greatest value of a latency key over a set of trials.
LeastOver(S, key) ==
    IF S = {} THEN Inf
    ELSE CHOOSE m \in 0..Inf :
            /\ \E t \in S : results[t].stats[key] = m
            /\ \A t \in S : results[t].stats[key] >= m
GreatestOver(S, key) ==
    IF S = {} THEN 0
    ELSE CHOOSE m \in 0..Inf :
            /\ \E t \in S : results[t].stats[key] = m
            /\ \A t \in S : results[t].stats[key] <= m

\* C2: with concurrency < count, at no time do more than `concurrency`
\* trials hold an admitted session (between the start of connect and the
\* end of close), under every interleaving of the trials.
C2_AtMostConcurrency ==
    Concurrency < Count => Cardinality(Admitted) <= Concurrency

\* The gate is full and a further trial is held back at it.
C2_Witness ==
    /\ Concurrency < Count
    /\ Cardinality(Admitted) = Concurrency
    /\ \E t \in Trials : pc[t] = "start"

\* C3: when the stress run has finished, `count` trials have completed and
\* the aggregate's connection_attempts is `count`, whatever the outcome of
\* each trial.
C3_AllTrialsCounted ==
    driver = "printed"
        => /\ Cardinality({t \in Trials : results[t].kind # "pending"}) = Count
           /\ total_stats.connection_attempts = Count

\* C4: once a trial has raised (close raising inside it), every sibling
\* still runs to its end, and the merge and the final print still happen.
C4_RaiseDoesNotAbort ==
    (\E t \in Trials : pc[t] = "raised")
        ~> (driver = "printed" /\ \A t \in Trials : pc[t] \in {"done", "raised"})

\* The summary was printed after a run in which one trial raised and
\* another completed a connection and returned its stats.
C4_Witness ==
    /\ driver = "printed"
    /\ \E t \in Trials : pc[t] = "raised"
    /\ \E t \in Returned : results[t].stats.successful_connections = 1

\* C5: a trial that raised is in the aggregate as a failed outcome: one
\* attempt, one failure, and nothing added to successful_connections,
\* messages_sent or messages_received.
C5_RaisedCountedAsFailure ==
    driver = "printed"
        => /\ total_stats.connection_attempts
                = SumOver(Returned, "connection_attempts") + Cardinality(Raised)
           /\ total_stats.failed_connections
                = SumOver(Returned, "failed_connections") + Cardinality(Raised)
           /\ total_stats.successful_connections
                = SumOver(Returned, "successful_connections")
           /\ total_stats.messages_sent = SumOver(Returned, "messages_sent")
           /\ total_stats.messages_received
                = SumOver(Returned, "messages_received")

\* C6: merging a stats record with no received message (min inf, max 0)
\* into the aggregate, at any point of the merge loop or after it, leaves
\* the aggregate's min_response_time and max_response_time as they were;
\* so does the merge loop of the Python 3.6 copy.
C6_ZeroReceiveIsIdentity ==
    driver \in {"merge", "printed"}
        => \A t \in Returned :
              results[t].stats.messages_received = 0
                 => /\ results[t].stats.min_response_time = Inf
                    /\ results[t].stats.max_response_time = 0
                    /\ MergeResult(total_stats, results[t]).min_response_time
                          = total_stats.min_response_time
                    /\ MergeResult(total_stats, results[t]).max_response_time
                          = total_stats.max_response_time
                    /\ MergeResultPy36(total_stats, results[t]).min_response_time
                          = total_stats.min_response_time
                    /\ MergeResultPy36(total_stats, results[t]).max_response_time
                          = total_stats.max_response_time

\* The merge loop has just folded a record with no received message into
\* an aggregate that already held latency samples.
C6_Witness ==
    /\ driver = "merge"
    /\ idx > 1
    /\ results[idx - 1].kind = "dict"
    /\ results[idx - 1].stats.messages_received = 0
    /\ total_stats.min_response_time < Inf
    /\ total_stats.max_response_time > 0

\* C7: the aggregate of the stats records the trials returned holds, for
\* each of the six additive keys, the sum over those records, and for min
\* / max the least / greatest value over the records with at least one
\* received message (inf / 0 when there is none).
C7_MergeIsSumMinMax ==
    driver = "printed"
        => /\ \A key \in {"connection_attempts", "successful_connections",
                           "failed_connections", "messages_sent",
                           "messages_received", "total_response_time"} :
                 total_stats[key] = SumOver(Returned, key)
           /\ total_stats.min_response_time
                 = LeastOver(Receiving, "min_response_time")
           /\ total_stats.max_response_time
                 = GreatestOver(Receiving, "max_response_time")

\* Every trial returned its stats, two of them with a reply, of different
\* latencies, and one without.
C7_Witness ==
    /\ driver = "printed"
    /\ Returned = Trials
    /\ Cardinality(Receiving) >= 2
    /\ Receiving # Returned
    /\ total_stats.min_response_time < total_stats.max_response_time

\* ----------------------------------------------- claims on basic_probe
\* The driver has left its coroutine, by return or by an exception.
Ended == dpc \in {"returned", "raised"}

\* C14: the basic probe runs connect, then on success ping_test and
\* send_message, then close, then print_stats; on every path close is
\* called once and the stats are printed once, after close.
C14_BasicOrder ==
    (mode = "basic" /\ Ended)
        => events \in
             {<<"connect", "ping", "send", "close", "print_stats">>,
              <<"connect", "http_probe", "close", "print_stats">>,
              <<"connect", "close", "print_stats">>}

\* C15: http_probe runs only after connect has failed and with debug set.
C15_HttpOnlyOnDebugFailure ==
    Times(events, "http_probe") > 0
        => /\ debug
           /\ dprobe.stats.successful_connections = 0
           /\ dprobe.stats.failed_connections > 0
           /\ Times(events, "http_probe") = 1

\* http_probe has run after a failed connect in debug mode.
C15_Witness ==
    /\ mode = "basic"
    /\ Times(events, "http_probe") = 1
    /\ debug
    /\ dprobe.stats.failed_connections = 1

\* C16: http_probe always returns a value: a failure of the request gives
\* the error shape with no status code, and a body that is returned is at
\* most 500 long.
C16_HttpProbeTotal ==
    http_result.outcome # "none"
        => /\ http_result.ret = "returned"
           /\ (http_result.outcome \in {"connect_error", "tls_error", "timeout"}
                 => /\ http_result.shape = "error"
                    /\ http_result.status_code = {})
           /\ (http_result.outcome \in {"response", "body_unreadable"}
                 => /\ http_result.shape = "result"
                    /\ http_result.status_code # {})
           /\ \A n \in http_result.content : n <= 500

\* A response came back whose body had to be cut.
C16_Witness ==
    /\ http_result.outcome = "response"
    /\ http_result.content = {500}
    /\ http_result.status_code = {200}

\* ------------------------------------------ claims on continuous_probe
\* C17: with interval 0 and the stop signal arriving right after the first
\* iteration (before the sleep, in it, or before the next loop test),
\* continuous_probe performs one probe cycle: one connect attempt.
C17_OneCycleThenStop ==
    (mode = "continuous" /\ interval = 0 /\ stopAt.cycle = 1
       /\ stopAt.pc \in {"if", "sleep", "while"})
        => /\ Cycles = 1
           /\ dprobe.stats.connection_attempts = 1
           /\ dpc \in {"if", "sleep", "while", "finally", "returned"}

\* The driver has returned after a stop signal that found it in the
\* sleep(0) of its first cycle.
C17_Witness ==
    /\ mode = "continuous"
    /\ interval = 0
    /\ stopAt.cycle = 1
    /\ stopAt.pc = "sleep"
    /\ dpc = "returned"
    /\ dprobe.stats.connection_attempts = 1

\* C18: when the stop signal arrives during the sleep between two cycles,
\* the loop leaves the sleep without waiting for the rest of the interval:
\* what was left of the interval has not elapsed when the sleep is left.
C18_PromptExit ==
    (mode = "continuous" /\ stopAt.pc = "sleep" /\ stopAt.left > 0
       /\ dpc # "sleep")
        => sleep_left > 0

\* C19: continuous_probe keeps one stats record over all its cycles (the
\* attempts it holds are those of every cycle so far, every attempt that
\* returned is a success or a failure in it, and it never holds more
\* messages than were sent), and prints the stats once, when the loop has
\* been left, as its last step.
C19_OneRunningStats ==
    mode = "continuous"
        => /\ dprobe.stats.connection_attempts = Cycles
           /\ dprobe.stats.successful_connections
                 + dprobe.stats.failed_connections
                 = Cycles - (IF dpc = "connect" THEN 1 ELSE 0)
           /\ dprobe.stats.messages_sent
                 <= Times(events, "send")
           /\ dprobe.stats.messages_received <= dprobe.stats.messages_sent
           /\ Times(events, "print_stats") = (IF Ended THEN 1 ELSE 0)
           /\ (Ended => events[Len(events)] = "print_stats")

\* Two cycles, each with a reply, and the stats printed at the end.
C19_Witness ==
    /\ mode = "continuous"
    /\ dpc = "returned"
    /\ Cycles = 2
    /\ dprobe.stats.messages_received = 2
    /\ Times(events, "print_stats") = 1

\* ------------------------------------------ claims on interactive_mode
\* C20: whichever way the prompt loop of an interactive session ends
\* (quit / exit / q, an interrupt, a send that fails), the receive task is
\* cancelled, the connection is closed, and the final stats are printed
\* once.
C20_InteractiveShutdown ==
    (mode = "interactive" /\ Ended /\ rx # "none")
        => /\ Times(events, "cancel") = 1
           /\ rx \in {"cancelled", "done"}
           /\ Times(events, "close") = 1
           /\ dprobe.connection = "CLOSED"
           /\ Times(events, "print_stats") = 1

\* -------------------------------------- claims on the session, continued
\* C28: no operation of the session raises to its caller: connect,
\* send_message, ping_test and close each end by returning, whatever the
\* transport, the protocol or the timer did.
C28_NoOperationRaises ==
    (last.op \in {"connect", "send", "ping", "close"}) => last.ret # "raise"

\* C29: a connect whose handshake the peer rejected with an HTTP status is
\* classified InvalidStatus, logs the status the peer answered, counts one
\* failed connection and logs the hint of that status: 200 plain HTTP
\* service, 404 path likely wrong, 403 access denied, 401 needs
\* authentication, any other status no hint.  A handshake that ran into the
\* deadline is classified Timeout, with no status and no hint.
C29_RejectedHandshakeHint ==
    (last.op = "connect") =>
        /\ (report.answered # 0) =>
              /\ last.ret = "InvalidStatus"
              /\ report.status = report.answered
              /\ probe.stats.failed_connections
                    = before.stats.failed_connections + 1
              /\ probe.stats.successful_connections
                    = before.stats.successful_connections
              /\ (report.answered = 200 => report.hint = "plain_http_service")
              /\ (report.answered = 404 => report.hint = "path_likely_wrong")
              /\ (report.answered = 403 => report.hint = "access_denied")
              /\ (report.answered = 401 => report.hint = "needs_authentication")
              /\ (report.answered \notin {200, 404, 403, 401}
                    => report.hint = "none")
        /\ report.deadline =>
              /\ last.ret = "Timeout"
              /\ report.status = 0
              /\ report.hint = "none"

\* A handshake rejected with 403 on the third attempt of the header
\* fallback, by a library that carries the status in e.response.
C29_Witness ==
    /\ last.op = "connect"
    /\ last.net = 3
    /\ last.ret = "InvalidStatus"
    /\ report.answered = 403
    /\ report.hint = "access_denied"

\* C27: no awaited network call of connect, send_message or ping_test
\* keeps its operation suspended for longer than the session's timeout.
C27_EveryAwaitBounded ==
    (inflight # Idle) => inflight.waited <= TimeoutTicks

\* ------------------------------------------ claims on interactive_mode
\* C21: once interactive_mode has called close, the receive task has
\* ended: no message is received or counted from then on, whatever the
\* order in which the prompt loop and the receive task ran.
C21_NoReceiveAfterClose ==
    (mode = "interactive") =>
        /\ (dpc \in {"closing", "returned", "raised"} /\ rx # "none")
              => rx \in {"cancelled", "done"}
        /\ \A i, j \in 1..Len(events) :
              (events[i] = "closing" /\ events[j] = "recv") => j < i
        /\ dprobe.stats.messages_received = Times(events, "recv")

\* A session that took a message, was left by quit while the receive task
\* was still waiting, and has closed.
C21_Witness ==
    /\ mode = "interactive"
    /\ dpc = "returned"
    /\ rx = "cancelled"
    /\ prompt.handled = "quit"
    /\ Times(events, "recv") = 1
    /\ Times(events, "closing") = 1

\* The lines of Inputs the prompt must not send: a reserved command, in
\* either case, or a blank line.
ReservedLines == {"quit", "exit", "Q", "ping", "stats", "help", "", " "}

\* C22 as stated: a reserved command or a blank line is never sent and
\* leaves messages_sent alone; every other line is sent verbatim and adds
\* exactly 1 to messages_sent.
C22_EveryOtherInputSent ==
    (mode = "interactive" /\ prompt.handled \notin {"none", "sending"}) =>
        /\ Len(wire) = dprobe.stats.messages_sent
        /\ \A i \in 1..Len(wire) : wire[i] \notin ReservedLines
        /\ IF prompt.line \in ReservedLines
           THEN dprobe.stats.messages_sent = prompt.seen.messages_sent
           ELSE /\ dprobe.stats.messages_sent = prompt.seen.messages_sent + 1
                /\ wire[Len(wire)] = prompt.line

\* C22, amended: a reserved command or a blank line is never sent and
\* leaves messages_sent alone; every other line is handed to the
\* connection verbatim, and adds exactly 1 to messages_sent when the
\* transmission returns; when the transmission raises, nothing is sent or
\* counted and the prompt loop is left.
C22_InputDispatch ==
    (mode = "interactive" /\ prompt.handled \notin {"none", "sending"}) =>
        /\ Len(wire) = dprobe.stats.messages_sent
        /\ \A i \in 1..Len(wire) : wire[i] \notin ReservedLines
        /\ IF prompt.line \in ReservedLines
           THEN dprobe.stats.messages_sent = prompt.seen.messages_sent
           ELSE /\ prompt.handled \in {"sent", "send_failed"}
                /\ (prompt.handled = "sent") =>
                      /\ dprobe.stats.messages_sent
                            = prompt.seen.messages_sent + 1
                      /\ wire[Len(wire)] = prompt.line
                /\ (prompt.handled = "send_failed") =>
                      /\ dprobe.stats.messages_sent
                            = prompt.seen.messages_sent
                      /\ dpc \notin {"prompt", "sending"}

\* Two lines were sent, the second one a padded command word.
C22_Witness ==
    /\ mode = "interactive"
    /\ prompt.handled = "sent"
    /\ wire = <<"hello", " quit ">>
    /\ dprobe.stats.messages_sent = 2

\* C23: the prompt loop and the receive task lose no update of the stats
\* they share: messages_sent is the number of lines the prompt loop sent
\* and messages_received the number of messages the receive task took,
\* in every state and so at termination.
C23_NoLostUpdate ==
    (mode = "interactive") =>
        /\ dprobe.stats.messages_sent = Times(events, "sent")
        /\ dprobe.stats.messages_received = Times(events, "recv")
        /\ Len(wire) = Times(events, "sent")

\* A message was taken while the prompt loop was suspended in send: after
\* the line was read and before its send returned.
C23_Witness ==
    /\ mode = "interactive"
    /\ prompt.handled = "sent"
    /\ Len(events) >= 2
    /\ events[Len(events)] = "sent"
    /\ events[Len(events) - 1] = "recv"
    /\ dprobe.stats.messages_received = prompt.seen.messages_received + 1
    /\ dprobe.stats.messages_sent = prompt.seen.messages_sent + 1

\* ------------------------------------------------------- claims on main
\* A connect has been attempted by some session of the run.
ConnectAttempted ==
    \/ dprobe.stats.connection_attempts > 0
    \/ \E t \in Trials : probes[t].stats.connection_attempts > 0

\* The driver's final statistics are out and no connection is left open.
ShutDown ==
    /\ mpc = "exited"
    /\ exit_code = {0}
    /\ dprobe.connection # "OPEN"
    /\ \A t \in Trials : probes[t].connection # "OPEN"
    /\ (Times(events, "print_stats") >= 1 \/ driver = "printed")

\* C24: in each mode, once the interrupt has been delivered to the
\* running driver, the run eventually ends in a graceful shutdown: the
\* driver has stopped, no connection is open, the stats are printed and
\* the exit code is 0.
C24_InterruptShutsDown ==
    (mpc = "run" /\ ~running) ~> ShutDown

\* The configuration errors: a scheme other than ws and wss, or a
\* --headers text that is not well-formed JSON.
ConfigError(a) ==
    \/ a.scheme \notin {"ws", "wss"}
    \/ a.headers \in {"malformed", "empty"}

\* C25: a command line with a configuration error ends with exit code 1,
\* with no session created and no network activity, whatever the mode.
C25_ConfigErrorExits1 ==
    (ConfigError(args) /\ mpc \in {"run", "exited"}) =>
        /\ mpc = "exited"
        /\ exit_code = {1}
        /\ mode = "none"
        /\ ~cfg.made
        /\ events = <<>>
        /\ ~ConnectAttempted

\* C26: the session a driver creates runs under the timeout of the
\* command line.
C26_ConfiguredTimeoutUsed ==
    cfg.made => cfg.timeout = args.timeout

\* C30: a session has certificate and hostname verification switched off
\* only if --skip-ssl-verify was given, and whenever it was given the
\* warning is on the output before any connect is attempted.
C30_SkipVerifyOnlyOnFlag ==
    /\ (cfg.made /\ VerifyDisabled(args.scheme, cfg.skip_ssl_verify))
          => args.skip_ssl_verify
    /\ cfg.made => cfg.skip_ssl_verify = args.skip_ssl_verify
    /\ (args.skip_ssl_verify /\ ConnectAttempted)
          => (\E i \in 1..Len(stdout) : stdout[i] = "ssl_verify_disabled")

\* A continuous run over wss with the flag given has attempted a connect.
C30_Witness ==
    /\ args.mode = "continuous"
    /\ args.scheme = "wss"
    /\ args.skip_ssl_verify
    /\ ConnectAttempted
    /\ VerifyDisabled(args.scheme, cfg.skip_ssl_verify)

\* C31: the exit code is 0 when the driver of the mode returned, also
\* when its session failed to connect and also after an interrupt, and it
\* is 1 only when main rejected the command line or the driver raised;
\* there is no exit code before main returns.
C31_ExitCodes ==
    /\ mpc # "exited" => exit_code = {}
    /\ mpc = "exited" =>
          /\ exit_code \in {{0}, {1}}
          /\ exit_code = {1} =>
                \/ (mode = "none" /\ ConfigError(args))
                \/ dpc = "raised"
          /\ (mode # "none" /\ dpc # "raised") => exit_code = {0}

\* An interrupted run whose only connect failed has exited with 0.
C31_Witness ==
    /\ mpc = "exited"
    /\ exit_code = {0}
    /\ ~running
    /\ dprobe.stats.connection_attempts = 1
    /\ dprobe.stats.failed_connections = 1

\* ------------------------------------------- claims on the statistics
\* A session's statistics show a received message only together with a
\* latency sample: the minimum is finite and not above the maximum.
Sampled(st) ==
    st.messages_received > 0
        => /\ st.min_response_time < Inf
           /\ st.min_response_time <= st.max_response_time

\* C32: in every mode, interactive included, every session with
\* messages_received > 0 has a finite min_response_time that is at most
\* its max_response_time, so the latencies print_stats prints stand on at
\* least one sample.
C32_ReceivedImpliesSample ==
    /\ Sampled(probe.stats)
    /\ Sampled(dprobe.stats)
    /\ \A t \in Trials : Sampled(probes[t].stats)

C34_OneConnectionAtATime ==
    mode = "continuous" =>
        /\ dpc = "connect" => dprobe.connection # "OPEN"
        /\ \A i, j \in 1..Len(events) :
              (i < j /\ events[i] = "connect" /\ events[j] = "connect"
                 /\ events[i + 1] = "ping")
                  => \E k \in (i + 1)..(j - 1) : events[k] = "close"

\* The second cycle has connected after the first one connected, pinged,
\* sent and closed.
C34_Witness ==
    /\ mode = "continuous"
    /\ events = <<"connect", "ping", "send", "close", "connect">>
    /\ dpc = "ping"
    /\ dprobe.connection = "OPEN"
    /\ dprobe.stats.successful_connections = 2

\* The first stop signal found continuous_probe inside a cycle.
StoppedInCycle ==
    /\ mode = "continuous"
    /\ stopAt.pc \in {"connect", "ping", "send"}

\* What the driver has logged since the last connect began.
RECURSIVE SinceLastConnect(_)
SinceLastConnect(log) ==
    IF log = <<>> \/ log[Len(log)] = "connect" THEN <<>>
    ELSE Append(SinceLastConnect(SubSeq(log, 1, Len(log) - 1)),
                log[Len(log)])

\* The interrupted cycle ran to its close (when its connect succeeded),
\* and then came the close and the print_stats of the finally block.
CycleThenShutdown ==
    /\ Ended
    /\ Times(events, "print_stats") = 1
    /\ SinceLastConnect(events) \in
          IF stopAt.pc = "connect"
          THEN {<<"close", "print_stats">>,
                <<"ping", "send", "close", "close", "print_stats">>}
          ELSE {<<"ping", "send", "close", "close", "print_stats">>}

\* C35: after a stop signal that arrives during the connect, the ping or
\* the send of a cycle, continuous_probe starts no further connect and
\* never sleeps, and it eventually ends with that cycle run to its close
\* and then the close and the stats of the finally block.
C35_StopInCycle ==
    /\ [](StoppedInCycle =>
            /\ Cycles = stopAt.cycle
            /\ dpc # "sleep"
            /\ sleep_left = stopAt.left
            /\ (Ended => CycleThenShutdown))
    /\ (StoppedInCycle ~> CycleThenShutdown)

\* The signal came during the ping of the first cycle of a run with a
\* non-zero interval; the driver has returned.
C35_Witness ==
    /\ mode = "continuous"
    /\ interval > 0
    /\ stopAt.pc = "ping"
    /\ stopAt.cycle = 1
    /\ dpc = "returned"
    /\ events = <<"connect", "ping", "send", "close", "close", "print_stats">>

\* ------------------------------------- further claims on the stress run
\* Every trial has left the gate and every permit is back.
AllTrialsOut ==
    /\ \A t \in Trials : pc[t] \in {"done", "raised"}
    /\ semaphore = concurrency

\* C36: for every count >= 0 and every concurrency >= 1, with every
\* awaited call ending: the permits are held by the trials inside the gate
\* and by no other (a trial that returned or raised has given its permit
\* back), gather returns only when every trial is out, and the run
\* eventually has every trial admitted and out and the aggregate printed.
C36_StressTerminates ==
    /\ [](concurrency >= 1 =>
            /\ semaphore + Cardinality(Admitted) = concurrency
            /\ semaphore >= 0
            /\ (driver # "gather" => AllTrialsOut))
    /\ ((concurrency >= 1) ~> (driver = "printed" /\ AllTrialsOut))

\* A run of two trials through one permit is printed; the first trial to
\* pass the gate raised.
C36_Witness ==
    /\ concurrency = 1
    /\ Cardinality(Trials) = 2
    /\ driver = "printed"
    /\ AllTrialsOut
    /\ \E t \in Trials : pc[t] = "raised"

\* C37: a stress run with concurrency 0 and at least one trial is stuck
\* for ever: every trial waits at the gate, no session has attempted a
\* connect, gather has not returned, nothing is merged or printed, and no
\* step of the run is possible.
C37_ZeroConcurrencyDeadlocks ==
    (concurrency = 0 /\ Cardinality(Trials) >= 1) =>
        /\ \A t \in Trials :
              /\ pc[t] = "start"
              /\ probes[t].stats.connection_attempts = 0
              /\ results[t].kind = "pending"
        /\ driver = "gather"
        /\ total_stats = InitStats
        /\ ~ENABLED NextStress

\* Two trials wait at a gate that has no permit.
C37_Witness ==
    /\ concurrency = 0
    /\ semaphore = 0
    /\ Cardinality(Trials) = 2
    /\ \A t \in Trials : pc[t] = "start"
    /\ driver = "gather"

\* The orders in which the results of the run can be folded.
Orders ==
    {o \in [1..Cardinality(Trials) -> Trials] :
        \A i, j \in 1..Cardinality(Trials) : o[i] = o[j] => i = j}

\* The merge loop run over the results taken in the order o.
RECURSIVE FoldIn(_, _)
FoldIn(o, total) ==
    IF o = <<>> THEN total
    ELSE FoldIn(Tail(o), MergeResult(total, results[Head(o)]))

Logged(e) == \E i \in 1..Len(events) : events[i] = e

\* C39: in the Python 3.6 copy, a basic probe with debug set whose connect
\* failed runs http_probe and prints the snapshot without raising: the
\* error when the result has the error shape; the status code, the
\* content type, the headers and the body prefix when it is a response.
C39_Py36SnapshotPrinted ==
    (mode = "basic_py36" /\ http_result # NoHttp /\ dpc # "snapshot") =>
        /\ Logged("http_probe")
        /\ dpc # "raised"
        /\ http_result.shape = "error" => Logged("print_error")
        /\ http_result.shape = "result" =>
              /\ Logged("print_status_code")
              /\ Logged("print_content_type")
              /\ Logged("print_headers")
              /\ (http_result.content # {0} => Logged("print_content"))

\* C40: in the Python 3.6 copy, on every path the basic probe ends with
\* one close followed by one print_stats, also when connect failed, with
\* debug or without.
C40_Py36CloseThenStats ==
    (mode = "basic_py36" /\ Ended) =>
        /\ Times(events, "close") = 1
        /\ Times(events, "print_stats") = 1
        /\ Len(events) >= 2
        /\ events[Len(events) - 1] = "close"
        /\ events[Len(events)] = "print_stats"

====
